---- MODULE Spec2Model ----
(***************************************************************************)
(* Model of the priority scoring layer of claude-mail                      *)
(* (src/core/features/PriorityScorer.ts).                                  *)
(*                                                                         *)
(* Numbers.  The scorer works on JavaScript floats.  The model keeps them  *)
(* as integers in hundredths: a relationship score or reply probability    *)
(* of 0.65 is 65, a running score of 69.5 points is 6950, a confidence of  *)
(* 0.8 is 80.  The returned score is Math.round of the running score and   *)
(* is kept in whole points, as the code returns it.                        *)
(*                                                                         *)
(* Optional fields (number | null) are sequences: <<>> is null, <<v>> is   *)
(* the number v.  Flags (0/1 in the code, read for truthiness) are         *)
(* BOOLEAN.  The clock is in whole seconds, as Math.floor(Date.now()/1000) *)
(* is.                                                                     *)
(***************************************************************************)
EXTENDS Integers, Sequences, FiniteSets, TLC

VARIABLES
    features,       \* the MessageFeatures record handed to calculatePriority
    now,            \* the clock, Math.floor(Date.now() / 1000)
    scored,         \* the calls of calculatePriority made so far: <<[at, out]>>
    featuresArray,  \* the argument of calculatePrioritiesBatch
    idx,            \* number of elements Array.map has visited
    results,        \* the array Array.map is building
    single,         \* each element's individual scoring: <<[at, out]>>
    batchState,     \* "idle" | "mapping" | "fulfilled" | "rejected"
    text,           \* what the ContentAnalyzer's patterns and parser find in a text
    analysis,       \* the value the ContentAnalyzer method returned, null before
    message,        \* what the gates' patterns find in one message
    lastIndex,      \* lastIndex of the gates' static RegExp objects, per gate
    detections,     \* the detect calls made so far: <<[gate, at, result]>>
    db,             \* the SQLite tables emails and sender_relationships
    relationships,  \* the RelationshipScorer calls made so far: <<[op, ...]>>
    history,        \* the EmailHistoryStats a stubbed analyzeEmailHistory returns
    connectionState,    \* ImapManager.connectionState
    reconnectAttempts,  \* ImapManager.reconnectAttempts
    reconnectTimer,     \* ImapManager.reconnectTimer: null or the handle of a timer
    lastConnectionError,\* ImapManager.lastConnectionError: null or an error
    imap,               \* ImapManager.imap: null or the Imap object in use
    conns,              \* the Imap objects created so far and their listeners
    timers,             \* the reconnect timers pending in the event loop: their delays
    calls,              \* the ensureConnected calls made so far
    backoff,            \* delays of the reconnects scheduled, 0 for each 'ready'
    quiet,              \* disconnect() was called and no caller has asked to connect since
    inbox,              \* DatabaseManager: the rows of the emails table
    emails,             \* useEmailState.emails: the rows loaded from the database
    selectedIndex,      \* useEmailState.selectedIndex
    view,               \* useEmailState.view
    searchQuery,        \* useEmailState.searchQuery
    currentPage,        \* useEmailState.currentPage
    emailPriorities,    \* useEmailState.emailPriorities: email id -> score
    ai_cache,           \* DatabaseManager: the rows of the ai_cache table by email_id
    cacheCalls,         \* the AI cache operations made so far and what they returned
    apiKey,             \* AIManager.apiKey: empty when ANTHROPIC_API_KEY is not set
    request,            \* the email handed to prioritizeEmail and the outcome of the model call
    priority            \* what prioritizeEmail completed with

vars == <<features, now, scored, featuresArray, idx, results, single, batchState,
          text, analysis, message, lastIndex, detections, db, relationships, history,
          connectionState, reconnectAttempts, reconnectTimer, lastConnectionError,
          imap, conns, timers, calls, backoff, quiet,
          inbox, emails, selectedIndex, view, searchQuery, currentPage, emailPriorities,
          ai_cache, cacheCalls, apiKey, request, priority>>

analyzerVars == <<text, analysis>>
gateVars == <<message, lastIndex, detections>>
storeVars == <<db, relationships, history>>
scorerVars == <<features, scored, featuresArray, idx, results, single, batchState>>
imapVars == <<connectionState, reconnectAttempts, reconnectTimer, lastConnectionError,
              imap, conns, timers, calls, backoff, quiet>>
listVars == <<inbox, emails, selectedIndex, view, searchQuery, currentPage, emailPriorities>>
cacheVars == <<ai_cache, cacheCalls>>
aiVars == <<apiKey, request, priority>>
uiVars == <<listVars, cacheVars, aiVars>>
clientVars == <<imapVars, uiVars>>

----------------------------------------------------------------------------
(* Bounds of the model *)

Epoch0 == 1000000      \* clock reading in the initial state (seconds)
TickSec == 3600        \* seconds one Tick advances the clock
MaxTicks == 2          \* Ticks per behaviour
MaxCalls == 2          \* calls of calculatePriority on the one record
MaxBatch == 2          \* length of featuresArray
MaxParsed == 2         \* dates chrono parses from the deadline phrases, and from the text
MaxItems == 6          \* list items, and sentences, of a body text
MaxDetects == 3        \* detect calls on the one message
MaxStoreCalls == 2     \* calls of the RelationshipScorer's methods
MaxConns == 3          \* Imap objects the ImapManager creates (SpecImap)
MaxEnsure == 3         \* calls of ImapManager.ensureConnected (SpecImap)
MaxInbox == 17         \* rows of the emails table (SpecList)
MaxCacheCalls == 3     \* operations on the ai_cache table (SpecCache)
MaxRetryCalls == 2     \* calls of ImapManager.ensureConnected (SpecRetry)

----------------------------------------------------------------------------
(* PriorityScorer.WEIGHTS and PriorityScorer.CATEGORIES, in points *)

NEWSLETTER_PENALTY == -30
AUTO_GENERATED_PENALTY == -20
OTP_PENALTY == -35
RELATIONSHIP_MAX == 30
EXPLICIT_ASK == 20
DEADLINE_BONUS == 15
URGENT_DEADLINE_BONUS == 25
VIP_SENDER == 15
THREAD_YOU_OWE == 20
REPLY_NEED_MAX == 25
INTENT_CONFIRM == 10
INTENT_REQUEST == 5
INTENT_INFORM == -5

URGENT == 90
IMPORTANT == 70
NORMAL == 50
LOW == 30

----------------------------------------------------------------------------
(* JavaScript values *)

Null == <<>>
Some(v) == <<v>>

\* if (x) on a number | null field: null and 0 are falsy
Truthy(o) == o # Null /\ o[1] # 0

Min(a, b) == IF a <= b THEN a ELSE b
Max(a, b) == IF a >= b THEN a ELSE b

\* whole points -> hundredths of a point
Pts(p) == p * 100

\* Math.round on a number held in hundredths: the nearest integer, halves up
MathRound(h) == (h + 50) \div 100

----------------------------------------------------------------------------
(* calculatePriority *)

\* let score = 50; reasoning = []; featureWeights = {}; confidence = 0.8
Baseline ==
    [score |-> Pts(50), confidence |-> 80, reasoning |-> <<>>,
     weights |-> [k \in {} |-> 0]]

\* ApplyRule with the featureWeights assignment left out
ApplyRuleNoWeight(acc, w, reason, name) ==
    [acc EXCEPT !.score = @ + w,
                !.reasoning = Append(@, reason)]

\* The statement triple of an additive rule:
\*   score += w; reasoning.push(reason); featureWeights[name] = w
ApplyRule(acc, w, reason, name) ==
    [acc EXCEPT !.score = @ + w,
                !.reasoning = Append(@, reason),
                !.weights = (name :> w) @@ @]

\* AutoGeneratedApplies without the calendar exception
AutoGeneratedAlways(f) == f.is_auto_generated

\* if (features.is_auto_generated && !features.has_calendar)
AutoGeneratedApplies(f) == f.is_auto_generated /\ ~f.has_calendar

\* OtpConfidence without the clamp
OtpConfidenceKept(c) == c

\* confidence = Math.min(confidence, 0.6)
OtpConfidence(c) == Min(c, 60)

\* PHASE 1: NEGATIVE SIGNALS
NegativeSignals(f, acc) ==
    LET a1 == IF f.is_newsletter
              THEN ApplyRule(acc, Pts(NEWSLETTER_PENALTY),
                             <<"Newsletter detected (RFC 2369/2919)">>, "is_newsletter")
              ELSE acc
        a2 == IF AutoGeneratedApplies(f)
              THEN ApplyRule(a1, Pts(AUTO_GENERATED_PENALTY),
                             <<"Auto-generated email (RFC 3834)">>, "is_auto_generated")
              ELSE a1
        a3 == IF f.otp_detected
              THEN [ApplyRule(a2, Pts(OTP_PENALTY),
                              <<"OTP/2FA code detected (low interaction priority)">>,
                              "otp_detected")
                    EXCEPT !.confidence = OtpConfidence(@)]
              ELSE a2
    IN  a3

\* Relationship strength: points are added and recorded whenever the score is
\* positive; a reason is pushed only above 0.4
RelationshipRule(f, acc) ==
    IF f.relationship_score > 0
    THEN LET relationshipPoints == f.relationship_score * RELATIONSHIP_MAX
             r == IF f.relationship_score > 70
                  THEN Append(acc.reasoning,
                              <<"Strong relationship with sender (score: )", f.relationship_score>>)
                  ELSE IF f.relationship_score > 40
                  THEN Append(acc.reasoning,
                              <<"Moderate relationship with sender (score: )", f.relationship_score>>)
                  ELSE acc.reasoning
         IN  [acc EXCEPT !.score = @ + relationshipPoints,
                         !.reasoning = r,
                         !.weights = ("relationship_score" :> relationshipPoints) @@ @]
    ELSE acc

\* the 24 hour limit included
UrgentDeadlineInclusive(f) ==
    f.time_to_deadline_min # Null /\ f.time_to_deadline_min[1] <= 1440

\* if (features.time_to_deadline_min !== null && features.time_to_deadline_min < 1440)
UrgentDeadline(f) ==
    f.time_to_deadline_min # Null /\ f.time_to_deadline_min[1] < 1440

\* Deadline exists, and the urgent deadline bonus nested in it
DeadlineRule(f, acc) ==
    IF Truthy(f.deadline_epoch)
    THEN LET a1 == ApplyRule(acc, Pts(DEADLINE_BONUS), <<"Email has deadline">>,
                             "deadline_epoch")
         IN  IF UrgentDeadline(f)
             THEN [ApplyRule(a1, Pts(URGENT_DEADLINE_BONUS),
                             <<"Deadline in h (urgent)", f.time_to_deadline_min[1] \div 60>>,
                             "time_to_deadline_urgent")
                   EXCEPT !.confidence = Min(@ + 10, 100)]
             ELSE a1
    ELSE acc

\* Reply prediction: applied only above 0.5
ReplyRule(f, acc) ==
    IF f.reply_need_prob > 50
    THEN ApplyRule(acc, f.reply_need_prob * REPLY_NEED_MAX,
                   <<"High reply probability (%)", f.reply_need_prob>>,
                   "reply_need_prob")
    ELSE acc

\* PHASE 2: POSITIVE SIGNALS
PositiveSignals(f, acc) ==
    LET a1 == RelationshipRule(f, acc)
        a2 == IF f.is_vip_sender
              THEN ApplyRule(a1, Pts(VIP_SENDER), <<"VIP sender (manually flagged)">>,
                             "is_vip_sender")
              ELSE a1
        a3 == IF f.explicit_ask
              THEN ApplyRule(a2, Pts(EXPLICIT_ASK),
                             <<"Contains explicit question or request">>, "explicit_ask")
              ELSE a2
        a4 == DeadlineRule(f, a3)
        a5 == IF f.thread_you_owe
              THEN ApplyRule(a4, Pts(THREAD_YOU_OWE),
                             <<"Conversation continuation (you owe a reply)">>,
                             "thread_you_owe")
              ELSE a4
    IN  ReplyRule(f, a5)

\* the inform modifier as the chain's last else
IntentModifiersInformByDefault(f, acc) ==
    IF f.content_intent = "confirm"
    THEN ApplyRule(acc, Pts(INTENT_CONFIRM), <<"Requires confirmation">>, "intent_confirm")
    ELSE IF f.content_intent = "request"
    THEN ApplyRule(acc, Pts(INTENT_REQUEST), <<"Action request">>, "intent_request")
    ELSE ApplyRule(acc, Pts(INTENT_INFORM), <<"Informational (lower priority)">>,
                   "intent_inform")

\* PHASE 3: INTENT MODIFIERS ('schedule' and null have no branch)
IntentModifiers(f, acc) ==
    IF f.content_intent = "confirm"
    THEN ApplyRule(acc, Pts(INTENT_CONFIRM), <<"Requires confirmation">>, "intent_confirm")
    ELSE IF f.content_intent = "request"
    THEN ApplyRule(acc, Pts(INTENT_REQUEST), <<"Action request">>, "intent_request")
    ELSE IF f.content_intent = "inform"
    THEN ApplyRule(acc, Pts(INTENT_INFORM), <<"Informational (lower priority)">>,
                   "intent_inform")
    ELSE acc

\* features.calendar_start_epoch - now, in seconds
TimeToEvent(f, t) == f.calendar_start_epoch[1] - t

\* CalendarOverrideApplies without the has_calendar test
CalendarOverrideIgnoringFlag(f, t) ==
    /\ Truthy(f.calendar_start_epoch)
    /\ TimeToEvent(f, t) > 0
    /\ TimeToEvent(f, t) < 24 * 3600

\* has_calendar && calendar_start_epoch, then hoursToEvent > 0 && hoursToEvent < 24
\* with hoursToEvent = timeToEvent / 3600
CalendarOverrideApplies(f, t) ==
    /\ f.has_calendar
    /\ Truthy(f.calendar_start_epoch)
    /\ TimeToEvent(f, t) > 0
    /\ TimeToEvent(f, t) < 24 * 3600

\* CalendarFloor with the floor at the wrong category boundary
CalendarFloorNormal(s) == Max(s, Pts(NORMAL))

\* score = Math.max(score, CATEGORIES.IMPORTANT)
CalendarFloor(s) == Max(s, Pts(IMPORTANT))

\* deadline_epoch && time_to_deadline_min !== null && time_to_deadline_min < 360
\* && explicit_ask
SecurityOverrideApplies(f) ==
    /\ Truthy(f.deadline_epoch)
    /\ f.time_to_deadline_min # Null
    /\ f.time_to_deadline_min[1] < 360
    /\ f.explicit_ask

\* SecurityFloor with the floor at the wrong category boundary
SecurityFloorImportant(s) == Max(s, Pts(IMPORTANT))

\* score = Math.max(score, CATEGORIES.URGENT - 5)
SecurityFloor(s) == Max(s, Pts(URGENT - 5))

\* PHASE 4: SPECIAL CASES & OVERRIDES (a reason is pushed, no feature weight)
SpecialCases(f, t, acc) ==
    LET a1 == IF CalendarOverrideApplies(f, t)
              THEN [acc EXCEPT !.score = CalendarFloor(@),
                               !.reasoning = Append(@, <<"Calendar invite: event in h",
                                                         TimeToEvent(f, t) \div 3600>>),
                               !.confidence = Min(@ + 15, 100)]
              ELSE acc
        a2 == IF SecurityOverrideApplies(f)
              THEN [a1 EXCEPT !.score = SecurityFloor(@),
                              !.reasoning = Append(@,
                                  <<"Potential security alert (urgent + short deadline)">>),
                              !.confidence = 70]
              ELSE a1
    IN  a2

\* ClampScore without the lower bound
ClampScoreUpperOnly(s) == Min(Pts(100), s)

\* score = Math.max(0, Math.min(100, score))
ClampScore(s) == Max(0, Min(Pts(100), s))

\* confidence = Math.max(0, Math.min(1, confidence))
ClampConfidence(c) == Max(0, Min(100, c))

\* the chain without its last category
CategorizeWithoutSpam(s) ==
    IF s >= Pts(URGENT) THEN "urgent"
    ELSE IF s >= Pts(IMPORTANT) THEN "important"
    ELSE IF s >= Pts(NORMAL) THEN "normal"
    ELSE "low"

\* the if/else chain over CATEGORIES, on the clamped running score
Categorize(s) ==
    IF s >= Pts(URGENT) THEN "urgent"
    ELSE IF s >= Pts(IMPORTANT) THEN "important"
    ELSE IF s >= Pts(NORMAL) THEN "normal"
    ELSE IF s >= Pts(LOW) THEN "low"
    ELSE "spam"

\* the running score before PHASE 5 (hundredths)
RunningScore(f, t) ==
    SpecialCases(f, t, IntentModifiers(f, PositiveSignals(f, NegativeSignals(f, Baseline))))

\* PHASE 5 and the returned PriorityScore
calculatePriority(f, t) ==
    LET acc == RunningScore(f, t)
        score == ClampScore(acc.score)
    IN  [email_id |-> f.email_id,
         score |-> MathRound(score),
         category |-> Categorize(score),
         confidence |-> ClampConfidence(acc.confidence),
         reasoning |-> acc.reasoning,
         feature_weights |-> acc.weights]

----------------------------------------------------------------------------
(* Inputs *)

RelationshipScores == {0, 15, 40, 65, 71, 100}
ReplyProbs == {0, 50, 78}
Intents == {"null", "confirm", "request", "schedule", "inform"}
DeadlineEpochs == {Null, Some(Epoch0 + 1800)}
MinutesToDeadline == {Null, Some(30), Some(359), Some(360), Some(1439), Some(1440)}
CalendarStarts == {Null, Some(Epoch0 + 2 * 3600), Some(Epoch0 + 24 * 3600)}

MessageFeatures ==
    [email_id : {"m1"},
     is_newsletter : BOOLEAN, is_auto_generated : BOOLEAN,
     has_calendar : BOOLEAN, calendar_start_epoch : CalendarStarts,
     otp_detected : BOOLEAN,
     relationship_score : RelationshipScores, is_vip_sender : BOOLEAN,
     thread_you_owe : BOOLEAN, explicit_ask : BOOLEAN,
     deadline_epoch : DeadlineEpochs, time_to_deadline_min : MinutesToDeadline,
     content_intent : Intents, reply_need_prob : ReplyProbs]

----------------------------------------------------------------------------
(* Scoring one record (Spec), and the same record again later (SpecClock) *)

\* the analyzer, the gates and the store while the scorer alone is exercised
AnalyzerIdle ==
    /\ text = <<>>
    /\ analysis = <<>>

GatesIdle ==
    /\ message = <<>>
    /\ lastIndex = <<>>
    /\ detections = <<>>

StoreIdle ==
    /\ db = <<>>
    /\ relationships = <<>>
    /\ history = <<>>

\* the mail client (ImapManager, list view, AI cache) not started
ImapIdle ==
    /\ connectionState = <<>>
    /\ reconnectAttempts = <<>>
    /\ reconnectTimer = <<>>
    /\ lastConnectionError = <<>>
    /\ imap = <<>>
    /\ conns = <<>>
    /\ timers = <<>>
    /\ calls = <<>>
    /\ backoff = <<>>
    /\ quiet = <<>>

ListIdle ==
    /\ inbox = <<>>
    /\ emails = <<>>
    /\ selectedIndex = <<>>
    /\ view = <<>>
    /\ searchQuery = <<>>
    /\ currentPage = <<>>
    /\ emailPriorities = <<>>

CacheIdle ==
    /\ ai_cache = <<>>
    /\ cacheCalls = <<>>

AIIdle ==
    /\ apiKey = <<>>
    /\ request = <<>>
    /\ priority = <<>>

UiIdle == ListIdle /\ CacheIdle /\ AIIdle

ClientIdle == ImapIdle /\ UiIdle

BatchIdle ==
    /\ featuresArray = <<>>
    /\ idx = 0
    /\ results = <<>>
    /\ single = <<>>
    /\ batchState = "idle"

Init ==
    /\ features \in MessageFeatures
    /\ now = Epoch0
    /\ scored = <<>>
    /\ BatchIdle
    /\ AnalyzerIdle /\ GatesIdle /\ StoreIdle /\ ClientIdle

\* one call of calculatePriority(features); the call reads Date.now()
Score ==
    /\ Len(scored) < MaxCalls
    /\ scored' = Append(scored, [at |-> now, out |-> calculatePriority(features, now)])
    /\ UNCHANGED <<features, now, featuresArray, idx, results, single, batchState,
                 analyzerVars, gateVars, storeVars, clientVars>>

ScoreOnce ==
    /\ scored = <<>>
    /\ Score

\* time passes
Tick ==
    /\ now < Epoch0 + MaxTicks * TickSec
    /\ now' = now + TickSec
    /\ UNCHANGED <<features, scored, featuresArray, idx, results, single, batchState,
                 analyzerVars, gateVars, storeVars, clientVars>>

Next == ScoreOnce

Spec == Init /\ [][Next]_vars

\* createBaselineFeatures of the test suite: every field at its no-signal value
BaselineFeatures(emailId) ==
    [email_id |-> emailId,
     is_newsletter |-> FALSE, is_auto_generated |-> FALSE,
     has_calendar |-> FALSE, calendar_start_epoch |-> Null,
     otp_detected |-> FALSE,
     relationship_score |-> 0, is_vip_sender |-> FALSE,
     thread_you_owe |-> FALSE, explicit_ask |-> FALSE,
     deadline_epoch |-> Null, time_to_deadline_min |-> Null,
     content_intent |-> "null", reply_need_prob |-> 0]

\* records for the repeated call: the fields the overrides read vary
ClockFeatures ==
    { [BaselineFeatures("m1") EXCEPT
          !.has_calendar = hc, !.calendar_start_epoch = cs,
          !.is_auto_generated = ag, !.is_newsletter = nl,
          !.explicit_ask = ea, !.deadline_epoch = de,
          !.time_to_deadline_min = IF de = Null THEN Null ELSE Some(30)] :
        hc \in BOOLEAN, cs \in CalendarStarts, ag \in BOOLEAN, nl \in BOOLEAN,
        ea \in BOOLEAN, de \in DeadlineEpochs }

InitClock ==
    /\ features \in ClockFeatures
    /\ now = Epoch0
    /\ scored = <<>>
    /\ BatchIdle
    /\ AnalyzerIdle /\ GatesIdle /\ StoreIdle /\ ClientIdle

NextClock == Score \/ Tick

SpecClock == InitClock /\ [][NextClock]_vars

----------------------------------------------------------------------------
(* calculatePrioritiesBatch: featuresArray.map(f => this.calculatePriority(f)) *)

\* An element of the array: Some(record), or Null for a null entry.
\* calculatePriority(null) throws a TypeError at its first property read.
Throws(e) == e = Null

\* the individual call on one element: Null when it throws, else the score
ScoreElement(e, t) == IF Throws(e) THEN Null ELSE Some(calculatePriority(e[1], t))

\* MapAppend putting the new result first
MapPrepend(arr, r) == <<r>> \o arr

\* Array.prototype.map puts each callback result after the earlier ones
MapAppend(arr, r) == Append(arr, r)

BatchPool ==
    { Null,
      Some(BaselineFeatures("email-001")),
      Some([BaselineFeatures("email-002") EXCEPT !.is_vip_sender = TRUE]),
      Some([BaselineFeatures("email-003") EXCEPT !.is_newsletter = TRUE]),
      Some([BaselineFeatures("email-004") EXCEPT
               !.has_calendar = TRUE,
               !.calendar_start_epoch = Some(Epoch0 + 2 * 3600)]) }

RECURSIVE Lists(_)
Lists(n) ==
    IF n = 0 THEN {<<>>}
    ELSE Lists(n - 1) \cup
         { Append(l, e) : l \in { m \in Lists(n - 1) : Len(m) = n - 1 }, e \in BatchPool }

InitBatch ==
    /\ features = BaselineFeatures("m1")
    /\ now = Epoch0
    /\ scored = <<>>
    /\ featuresArray \in Lists(MaxBatch)
    /\ idx = 0
    /\ results = <<>>
    /\ single = <<>>
    /\ batchState = "idle"
    /\ AnalyzerIdle /\ GatesIdle /\ StoreIdle /\ ClientIdle

\* the caller scores the next element on its own, before the batch call
ScoreSingle ==
    /\ batchState = "idle"
    /\ Len(single) < Len(featuresArray)
    /\ single' = Append(single,
                        [at |-> now,
                         out |-> ScoreElement(featuresArray[Len(single) + 1], now)])
    /\ UNCHANGED <<features, now, scored, featuresArray, idx, results, batchState,
                 analyzerVars, gateVars, storeVars, clientVars>>

\* the call of calculatePrioritiesBatch(featuresArray)
StartBatch ==
    /\ batchState = "idle"
    /\ Len(single) = Len(featuresArray)
    /\ batchState' = "mapping"
    /\ UNCHANGED <<features, now, scored, featuresArray, idx, results, single,
                 analyzerVars, gateVars, storeVars, clientVars>>

\* one callback of map; a throw leaves map and rejects the async function's
\* promise: there is no try/catch, and the array built so far is dropped
MapStep ==
    /\ batchState = "mapping"
    /\ idx < Len(featuresArray)
    /\ IF Throws(featuresArray[idx + 1])
       THEN /\ batchState' = "rejected"
            /\ results' = <<>>
            /\ idx' = idx
       ELSE /\ results' = MapAppend(results,
                                    [at |-> now,
                                     out |-> calculatePriority(featuresArray[idx + 1][1], now)])
            /\ idx' = idx + 1
            /\ batchState' = batchState
    /\ UNCHANGED <<features, now, scored, featuresArray, single,
                 analyzerVars, gateVars, storeVars, clientVars>>

\* map is through: the promise resolves with the array
BatchReturn ==
    /\ batchState = "mapping"
    /\ idx = Len(featuresArray)
    /\ batchState' = "fulfilled"
    /\ UNCHANGED <<features, now, scored, featuresArray, idx, results, single,
                 analyzerVars, gateVars, storeVars, clientVars>>

NextBatch == ScoreSingle \/ StartBatch \/ MapStep \/ BatchReturn \/ Tick

SpecBatch == InitBatch /\ [][NextBatch]_vars

----------------------------------------------------------------------------
(* ContentAnalyzer.  A text is kept as what the analyzer's regular          *)
(* expressions and the chrono date parser find in it: which patterns        *)
(* match, which dates are parsed (milliseconds since the epoch, as          *)
(* Date.getTime() gives them), which list items and sentences it holds.     *)

Intents4 == {"request", "inform", "schedule", "confirm"}

\* rule 2 tried before rule 1
classifyIntentRequestFirst(hasQuestion, hasDeadline, urgencyLevel, actionItemCount) ==
    IF hasQuestion \/ actionItemCount > 0 \/ urgencyLevel >= 5 THEN "request"
    ELSE IF hasDeadline /\ urgencyLevel >= 5 THEN "confirm"
    ELSE IF hasDeadline /\ urgencyLevel < 5 THEN "schedule"
    ELSE "inform"

classifyIntent(hasQuestion, hasDeadline, urgencyLevel, actionItemCount) ==
    IF hasDeadline /\ urgencyLevel >= 5 THEN "confirm"
    ELSE IF hasQuestion \/ actionItemCount > 0 \/ urgencyLevel >= 5 THEN "request"
    ELSE IF hasDeadline /\ urgencyLevel < 5 THEN "schedule"
    ELSE "inform"

\* detectQuestions: the first pattern list with a match decides
detectQuestions(t) ==
    IF t.directQuestion \/ t.whWordAtStart
    THEN [has_question |-> TRUE, question_type |-> "direct"]
    ELSE IF t.implicitQuestion
    THEN [has_question |-> TRUE, question_type |-> "implicit"]
    ELSE [has_question |-> FALSE, question_type |-> "none"]

\* new Date().getTime() at clock reading t
NowMs(t) == t * 1000

\* if (!earliestDeadline || parsed < earliestDeadline) earliestDeadline = parsed
KeepEarliest(earliest, parsed) ==
    IF earliest = Null \/ parsed < earliest[1] THEN Some(parsed) ELSE earliest

\* the loop over DEADLINE_PATTERNS: dates[i] is what chrono.parseDate made of
\* the i-th matching phrase that it could parse
RECURSIVE PatternLoop(_, _)
PatternLoop(dates, earliest) ==
    IF dates = <<>> THEN earliest
    ELSE PatternLoop(Tail(dates), KeepEarliest(earliest, Head(dates)))

\* the loop over chrono.parse(textSnippet, now): only dates after now count
RECURSIVE GeneralLoop(_, _, _)
GeneralLoop(dates, nowMs, earliest) ==
    IF dates = <<>> THEN earliest
    ELSE GeneralLoop(Tail(dates), nowMs,
                     IF Head(dates) > nowMs
                     THEN KeepEarliest(earliest, Head(dates))
                     ELSE earliest)

extractDeadlines(t, clock) ==
    LET nowMs == NowMs(clock)
        earliestDeadline ==
            GeneralLoop(t.generalDates, nowMs, PatternLoop(t.patternDates, Null))
    IN  IF earliestDeadline = Null
        THEN [deadline_epoch |-> Null, time_to_deadline_min |-> Null]
        ELSE LET deadlineEpoch == earliestDeadline[1] \div 1000
                 timeToDeadlineMs == earliestDeadline[1] - nowMs
                 timeToDeadlineMin == timeToDeadlineMs \div (1000 * 60)
             IN  [deadline_epoch |-> Some(deadlineEpoch),
                  time_to_deadline_min |->
                      IF timeToDeadlineMin > 0 THEN Some(timeToDeadlineMin) ELSE Null]


\* the loop over one tier stopping at its first matching pattern
RECURSIVE TierLoopFirstMatch(_, _, _, _, _, _)
TierLoopFirstMatch(tier, i, n, matched, points, acc) ==
    IF i > n THEN acc
    ELSE IF i \in matched
    THEN [score |-> acc.score + points, signals |-> Append(acc.signals, <<tier, i>>)]
    ELSE TierLoopFirstMatch(tier, i + 1, n, matched, points, acc)

\* for (const pattern of URGENCY_SIGNALS[tier])
\*   if (pattern.test(fullText)) { score += points; signals.push(pattern.source) }
\* the i-th pattern's source is kept as <<tier, i>>
RECURSIVE TierLoop(_, _, _, _, _, _)
TierLoop(tier, i, n, matched, points, acc) ==
    IF i > n THEN acc
    ELSE TierLoop(tier, i + 1, n, matched, points,
                  IF i \in matched
                  THEN [score |-> acc.score + points,
                        signals |-> Append(acc.signals, <<tier, i>>)]
                  ELSE acc)

\* subject.match(/\b[A-Z]{3,}\b/g) found t.allCapsWords words (null: none)
AllCaps(t, acc) ==
    IF t.allCapsWords > 0
    THEN [score |-> acc.score + 2, signals |-> Append(acc.signals, <<"ALL CAPS in subject">>)]
    ELSE acc

detectUrgency(t) ==
    LET critical == TierLoop("CRITICAL", 1, 5, t.critical, 5, [score |-> 0, signals |-> <<>>])
        high == TierLoop("HIGH", 1, 4, t.high, 3, critical)
        medium == TierLoop("MEDIUM", 1, 3, t.medium, 1, high)
        caps == AllCaps(t, medium)
    IN  [urgency_level |-> Min(10, caps.score), urgency_signals |-> caps.signals]

\* [...new Set(items)]: the first occurrence of each item, in order
RECURSIVE Unique(_)
Unique(items) ==
    IF items = <<>> THEN <<>>
    ELSE LET init == Unique(SubSeq(items, 1, Len(items) - 1))
             last == items[Len(items)]
         IN  IF \E k \in 1..Len(init) : init[k] = last THEN init ELSE Append(init, last)

\* array.slice(0, 5)
Slice5(items) == SubSeq(items, 1, Min(5, Len(items)))

\* a sentence that one of ACTION_PATTERNS matches
MatchesActionPattern(sentence) == sentence # "plain"

\* the sentence loop: one item per matching sentence, left at five items
RECURSIVE SentenceLoop(_, _)
SentenceLoop(sentences, items) ==
    IF sentences = <<>> THEN items
    ELSE LET pushed == IF MatchesActionPattern(Head(sentences))
                       THEN Append(items, Head(sentences))
                       ELSE items
         IN  IF Len(pushed) >= 5 THEN pushed
             ELSE SentenceLoop(Tail(sentences), pushed)

\* t.markerItems: match[1].trim() of every ACTION_MARKERS match, in the
\* order the loops meet them; t.sentences: bodyText.split(/[.!?]\s+/), trimmed
extractActionItems(t) ==
    LET items == IF Len(t.markerItems) = 0
                 THEN SentenceLoop(t.sentences, <<>>)
                 ELSE t.markerItems
    IN  Slice5(Unique(items))

analyzeContent(t, clock) ==
    LET questionResult == detectQuestions(t)
        deadlineResult == extractDeadlines(t, clock)
        urgencyResult == detectUrgency(t)
        actionItems == extractActionItems(t)
        intent == classifyIntent(questionResult.has_question,
                                 deadlineResult.deadline_epoch # Null,
                                 urgencyResult.urgency_level,
                                 Len(actionItems))
    IN  [has_question |-> questionResult.has_question,
         question_type |-> questionResult.question_type,
         deadline_epoch |-> deadlineResult.deadline_epoch,
         time_to_deadline_min |-> deadlineResult.time_to_deadline_min,
         urgency_level |-> urgencyResult.urgency_level,
         urgency_signals |-> urgencyResult.urgency_signals,
         action_items |-> actionItems,
         intent |-> intent]


----------------------------------------------------------------------------
(* Calls of the ContentAnalyzer's methods *)

SeqsUpTo(S, n) == UNION { [1..k -> S] : k \in 0..n }

ScorerIdle ==
    /\ features = BaselineFeatures("m1")
    /\ scored = <<>>
    /\ BatchIdle

\* classifyIntent called with its four arguments, as the test suite calls it
IntentArgs ==
    [op : {"classifyIntent"}, hasQuestion : BOOLEAN, hasDeadline : BOOLEAN,
     urgencyLevel : 0..10, actionItemCount : 0..5]

\* dates chrono can return, around the clock reading Epoch0: an hour ago,
\* this instant, 30 seconds ahead, 90 minutes ahead, three days ahead
ParsedDates ==
    { NowMs(Epoch0) + d : d \in {-3600000, 0, 30000, 5400000, 259200000} }

\* texts handed to analyzeContent
ContentTexts ==
    [op : {"analyzeContent"},
     directQuestion : BOOLEAN, whWordAtStart : {FALSE}, implicitQuestion : BOOLEAN,
     patternDates : {<<>>, <<NowMs(Epoch0) - 3600000>>, <<NowMs(Epoch0) + 259200000>>},
     generalDates : {<<>>, <<NowMs(Epoch0) + 5400000>>},
     critical : {{}, {1}}, high : {{}, {4}}, medium : {{}, {2}},
     allCapsWords : {0, 1},
     markerItems : {<<>>, <<"a">>}, sentences : {<<>>, <<"b">>}]

InitIntent ==
    /\ text \in IntentArgs \cup ContentTexts
    /\ analysis = Null
    /\ now = Epoch0
    /\ ScorerIdle /\ GatesIdle /\ StoreIdle /\ ClientIdle

ClassifyIntent ==
    /\ analysis = Null
    /\ text.op = "classifyIntent"
    /\ analysis' = Some(classifyIntent(text.hasQuestion, text.hasDeadline,
                                       text.urgencyLevel, text.actionItemCount))
    /\ UNCHANGED <<text, now, scorerVars, gateVars, storeVars, clientVars>>

AnalyzeContent ==
    /\ analysis = Null
    /\ text.op = "analyzeContent"
    /\ analysis' = Some(analyzeContent(text, now))
    /\ UNCHANGED <<text, now, scorerVars, gateVars, storeVars, clientVars>>

NextIntent == ClassifyIntent \/ AnalyzeContent

SpecIntent == InitIntent /\ [][NextIntent]_vars

\* extractDeadlines on a text with up to MaxParsed parsed deadline phrases
\* and up to MaxParsed dates in its first 500 characters
DeadlineTexts ==
    [op : {"extractDeadlines"},
     patternDates : SeqsUpTo(ParsedDates, MaxParsed),
     generalDates : SeqsUpTo(ParsedDates, MaxParsed)]

InitDeadlines ==
    /\ text \in DeadlineTexts
    /\ analysis = Null
    /\ now = Epoch0
    /\ ScorerIdle /\ GatesIdle /\ StoreIdle /\ ClientIdle

ExtractDeadlines ==
    /\ analysis = Null
    /\ text.op = "extractDeadlines"
    /\ analysis' = Some(extractDeadlines(text, now))
    /\ UNCHANGED <<text, now, scorerVars, gateVars, storeVars, clientVars>>

NextDeadlines == ExtractDeadlines

SpecDeadlines == InitDeadlines /\ [][NextDeadlines]_vars

\* detectUrgency on every combination of matching patterns
UrgencyTexts ==
    [op : {"detectUrgency"},
     critical : SUBSET (1..5), high : SUBSET (1..4), medium : SUBSET (1..3),
     allCapsWords : {0, 1, 2}]

InitUrgency ==
    /\ text \in UrgencyTexts
    /\ analysis = Null
    /\ now = Epoch0
    /\ ScorerIdle /\ GatesIdle /\ StoreIdle /\ ClientIdle

DetectUrgency ==
    /\ analysis = Null
    /\ text.op = "detectUrgency"
    /\ analysis' = Some(detectUrgency(text))
    /\ UNCHANGED <<text, now, scorerVars, gateVars, storeVars, clientVars>>

NextUrgency == DetectUrgency

SpecUrgency == InitUrgency /\ [][NextUrgency]_vars

\* extractActionItems on a body with list items, or with sentences only
Items == {"a", "b", "c", "d", "e", "f"}

ActionTexts ==
    [op : {"extractActionItems"},
     markerItems : SeqsUpTo(Items, MaxItems), sentences : {<<>>, <<"a", "plain">>}]
    \cup
    [op : {"extractActionItems"},
     markerItems : {<<>>}, sentences : SeqsUpTo(Items \cup {"plain"}, MaxItems)]

InitActions ==
    /\ text \in ActionTexts
    /\ analysis = Null
    /\ now = Epoch0
    /\ ScorerIdle /\ GatesIdle /\ StoreIdle /\ ClientIdle

ExtractActionItems ==
    /\ analysis = Null
    /\ text.op = "extractActionItems"
    /\ analysis' = Some(extractActionItems(text))
    /\ UNCHANGED <<text, now, scorerVars, gateVars, storeVars, clientVars>>

NextActions == ExtractActionItems

SpecActions == InitActions /\ [][NextActions]_vars

----------------------------------------------------------------------------
(* The pattern gates: NewsletterGate, CalendarGate, OTPGate.  A message is  *)
(* kept as what each gate's tests find in its sender, headers, subject,     *)
(* body and attachments.  Confidences are in hundredths.  The only state    *)
(* that outlives a detect call is that of the static RegExp objects of the  *)
(* gate classes: their lastIndex, kept here per pattern list.               *)

NEWSLETTER_THRESHOLD == 60
CALENDAR_THRESHOLD == 70
OTP_THRESHOLD == 65

Gates == {"newsletter", "calendar", "otp"}

PatternLists ==
    {"NO_REPLY_PATTERNS", "CALENDAR_SUBJECT_PATTERNS", "CALENDAR_BODY_PATTERNS",
     "OTP_SUBJECT_PATTERNS", "OTP_KEYWORDS", "TIME_INDICATORS", "OTP_SERVICES"}

\* a pattern list declared with the g flag
HasGlobalFlagOnSenderPatterns(list) == list = "NO_REPLY_PATTERNS"

\* whether the patterns of a list carry the g (or y) flag: none does
HasGlobalFlag(list) == FALSE

\* pattern.test(s) for the patterns of a list, s holding a match (found) or
\* not: a pattern with the g flag searches from its lastIndex on
RegExpTest(list, found, li) ==
    found /\ (~HasGlobalFlag(list) \/ li[list] = 0)

\* the number of patterns of a list that test true, n of them matching s
RegExpCount(list, n, li) ==
    IF HasGlobalFlag(list) /\ li[list] # 0 THEN 0 ELSE n

\* lastIndex after the test: past the match, or back at 0 after a failure;
\* untouched without the g flag
AfterTest(list, found, li) ==
    IF HasGlobalFlag(list)
    THEN (IF RegExpTest(list, found, li) THEN 1 ELSE 0)
    ELSE li[list]

\* confidence + c in place of Math.max(confidence, c)
RaiseBySum(confidence, c) == confidence + c

\* confidence = Math.max(confidence, c)
Raise(confidence, c) == Max(confidence, c)

\* if (<signal found>) { reasons.push(reason); confidence = Math.max(confidence, c) }
Signal(acc, fired, c, reason) ==
    IF fired
    THEN [acc EXCEPT !.confidence = Raise(@, c), !.reasons = Append(@, reason)]
    ELSE acc

NoSignals == [confidence |-> 0, reasons |-> <<>>]

\* NewsletterGate.detect(senderEmail, headers, subject)
NewsletterDetect(m, li) ==
    LET s1 == Signal(NoSignals, m.headers /\ m.listHeaders, 95, <<"Has LIST-* header">>)
        s2 == Signal(s1, m.headers /\ m.campaignHeaders, 90, <<"Has marketing header">>)
        s3 == Signal(s2, m.headers /\ m.precedenceBulk, 85,
                     <<"Precedence header indicates bulk mail">>)
        s4 == Signal(s3, RegExpTest("NO_REPLY_PATTERNS", m.noReplySender, li), 75,
                     <<"Sender matches pattern">>)
        s5 == Signal(s4, m.newsletterDomain, 85, <<"From known newsletter service">>)
        s6 == Signal(s5, m.subjectPattern, 60, <<"Subject matches newsletter pattern">>)
    IN  [isNewsletter |-> s6.confidence >= NEWSLETTER_THRESHOLD,
         confidence |-> s6.confidence,
         reasons |-> s6.reasons]

\* CalendarGate.detect(senderEmail, headers, subject, bodyText, attachments, contentType)
CalendarDetect(m, li) ==
    LET s1 == IF m.calendarContentType
              THEN [confidence |-> 100, reasons |-> <<<<"Content-Type is (RFC 5545)">>>>]
              ELSE NoSignals
        e1 == IF m.calendarContentType /\ m.hasVCalendar THEN "vcalendar" ELSE "undefined"
        s2 == Signal(s1, m.icsAttachment, 95, <<"Has calendar attachment">>)
        s3 == Signal(s2, m.calendarService, 90, <<"From calendar service">>)
        subjectHit == RegExpTest("CALENDAR_SUBJECT_PATTERNS", m.subjectPattern, li)
        s4 == Signal(s3, subjectHit, 85, <<"Subject matches calendar pattern">>)
        e4 == IF subjectHit /\ m.subjectTime /\ e1 = "undefined" THEN "subject" ELSE e1
        s4b == Signal(s4, m.meetingResponse, 80, <<"Subject indicates meeting response">>)
        patternMatches == RegExpCount("CALENDAR_BODY_PATTERNS", m.bodyMatches, li)
        bodyConfidence == Min(70 + patternMatches * 5, 85)
        s5 == Signal(s4b, patternMatches > 0, bodyConfidence,
                     <<"Body contains calendar pattern(s)", patternMatches>>)
        e5 == IF patternMatches > 0 /\ e4 = "undefined" /\ m.textEventInfo
              THEN "text" ELSE e4
        s6 == Signal(s5, m.headers /\ m.exchangeHeaders, 90,
                     <<"Has Microsoft Exchange calendar headers">>)
        s7 == Signal(s6, m.headers /\ m.eventHeaders, 85, <<"Has event platform headers">>)
    IN  [hasCalendar |-> s7.confidence >= CALENDAR_THRESHOLD,
         confidence |-> s7.confidence,
         eventInfo |-> IF s7.confidence >= CALENDAR_THRESHOLD THEN e5 ELSE "undefined",
         reasons |-> s7.reasons]


\* otpInfo.expiryMinutes = minutes / otpInfo.service = service, when otpInfo is set
WithExpiry(info, minutes) ==
    IF info = Null \/ minutes = Null THEN info
    ELSE Some([info[1] EXCEPT !.expiryMinutes = minutes])

WithService(info, known) ==
    IF info = Null \/ ~known THEN info
    ELSE Some([info[1] EXCEPT !.service = TRUE])

\* OTPGate.detect(senderEmail, subject, bodyText, emailDate) at clock reading t
\* (seconds); m.emailDate is in seconds too
OTPDetect(m, li, t) ==
    LET ageMinutes == IF m.emailDate = Null THEN Null
                      ELSE Some((t - m.emailDate[1]) \div 60)
        expired0 == ageMinutes # Null /\ ageMinutes[1] > 15
        s1 == Signal(NoSignals, RegExpTest("OTP_SUBJECT_PATTERNS", m.subjectPattern, li),
                     80, <<"Subject matches OTP pattern">>)
        s2 == Signal(s1, m.codeInSubject, 75, <<"Found potential code in subject">>)
        i2 == IF m.codeInSubject
              THEN Some([code |-> "subject", expiryMinutes |-> Null, service |-> FALSE])
              ELSE Null
        keywordMatches == RegExpCount("OTP_KEYWORDS", m.keywordMatches, li)
        keywordConfidence == Min(70 + keywordMatches * 10, 95)
        s3 == Signal(s2, keywordMatches > 0, keywordConfidence,
                     <<"Body contains OTP keyword(s)", keywordMatches>>)
        extractedCode == keywordMatches > 0 /\ m.codeNearKeyword
        s4 == Signal(s3, extractedCode, 90, <<"Found code">>)
        i4 == IF extractedCode /\ i2 = Null
              THEN Some([code |-> "body", expiryMinutes |-> Null, service |-> FALSE])
              ELSE i2
        s5 == Signal(s4, m.expiryMinutes # Null, 85,
                     <<"Code expires in minutes", IF m.expiryMinutes = Null THEN 0
                                                  ELSE m.expiryMinutes[1]>>)
        i5 == WithExpiry(i4, m.expiryMinutes)
        expired1 == \/ expired0
                    \/ /\ m.expiryMinutes # Null
                       /\ Truthy(ageMinutes)
                       /\ ageMinutes[1] > m.expiryMinutes[1]
        s6 == Signal(s5, RegExpTest("TIME_INDICATORS", m.timeIndicator, li), 75,
                     <<"Contains time-sensitive language">>)
        service == RegExpTest("OTP_SERVICES", m.knownService, li)
        s7 == Signal(s6, service, 70, <<"From known service">>)
        i7 == WithService(i5, service)
        s8 == Signal(s7, m.securitySender, 65, <<"From security/no-reply address">>)
    IN  [hasOTP |-> s8.confidence >= OTP_THRESHOLD,
         confidence |-> s8.confidence,
         otpInfo |-> IF s8.confidence >= OTP_THRESHOLD THEN i7 ELSE Null,
         ageMinutes |-> ageMinutes,
         isExpired |-> expired1,
         reasons |-> IF expired1
                     THEN Append(s8.reasons, <<"OTP likely expired (email too old)">>)
                     ELSE s8.reasons]

\* the detect method of a gate, on the gate's part of the message
GateDetect(g, msg, li, t) ==
    IF g = "newsletter" THEN NewsletterDetect(msg.newsletter, li)
    ELSE IF g = "calendar" THEN CalendarDetect(msg.calendar, li)
    ELSE OTPDetect(msg.otp, li, t)

\* what the call left in the static RegExp objects
AfterDetect(g, msg, li) ==
    [list \in PatternLists |->
        IF g = "newsletter" /\ list = "NO_REPLY_PATTERNS"
        THEN AfterTest(list, msg.newsletter.noReplySender, li)
        ELSE IF g = "calendar" /\ list = "CALENDAR_SUBJECT_PATTERNS"
        THEN AfterTest(list, msg.calendar.subjectPattern, li)
        ELSE IF g = "calendar" /\ list = "CALENDAR_BODY_PATTERNS"
        THEN AfterTest(list, msg.calendar.bodyMatches > 0, li)
        ELSE IF g = "otp" /\ list = "OTP_SUBJECT_PATTERNS"
        THEN AfterTest(list, msg.otp.subjectPattern, li)
        ELSE IF g = "otp" /\ list = "OTP_KEYWORDS"
        THEN AfterTest(list, msg.otp.keywordMatches > 0, li)
        ELSE IF g = "otp" /\ list = "TIME_INDICATORS"
        THEN AfterTest(list, msg.otp.timeIndicator, li)
        ELSE IF g = "otp" /\ list = "OTP_SERVICES"
        THEN AfterTest(list, msg.otp.knownService, li)
        ELSE li[list]]

----------------------------------------------------------------------------
(* Messages and detect calls *)

\* headers undefined: no header signal; header signals need headers
NewsletterSignals ==
    { m \in [headers : BOOLEAN, listHeaders : BOOLEAN, campaignHeaders : BOOLEAN,
             precedenceBulk : BOOLEAN, noReplySender : BOOLEAN,
             newsletterDomain : BOOLEAN, subjectPattern : BOOLEAN] :
        ~m.headers => (~m.listHeaders /\ ~m.campaignHeaders /\ ~m.precedenceBulk) }

QuietNewsletter ==
    [headers |-> FALSE, listHeaders |-> FALSE, campaignHeaders |-> FALSE,
     precedenceBulk |-> FALSE, noReplySender |-> FALSE,
     newsletterDomain |-> FALSE, subjectPattern |-> FALSE]

\* 'accepted:' in the subject is one of CALENDAR_SUBJECT_PATTERNS too; the
\* body can hold up to 20 of the body patterns, 0..4 of them here
CalendarSignals ==
    { m \in [calendarContentType : BOOLEAN, hasVCalendar : BOOLEAN,
             icsAttachment : BOOLEAN, calendarService : BOOLEAN,
             subjectPattern : BOOLEAN, subjectTime : BOOLEAN, meetingResponse : BOOLEAN,
             bodyMatches : 0..4, textEventInfo : BOOLEAN,
             headers : BOOLEAN, exchangeHeaders : BOOLEAN, eventHeaders : BOOLEAN] :
        /\ m.hasVCalendar => m.calendarContentType
        /\ (m.subjectTime \/ m.meetingResponse) => m.subjectPattern
        /\ m.textEventInfo => m.bodyMatches > 0
        /\ m.headers <=> (m.exchangeHeaders \/ m.eventHeaders) }

QuietCalendar ==
    [calendarContentType |-> FALSE, hasVCalendar |-> FALSE,
     icsAttachment |-> FALSE, calendarService |-> FALSE,
     subjectPattern |-> FALSE, subjectTime |-> FALSE, meetingResponse |-> FALSE,
     bodyMatches |-> 0, textEventInfo |-> FALSE,
     headers |-> FALSE, exchangeHeaders |-> FALSE, eventHeaders |-> FALSE]

\* 'expires in 10 minutes' is one of TIME_INDICATORS too ('expires in 2
\* hours' is not); the message is 5 or 20 minutes old at Epoch0, or undated
OtpSignals ==
    { m \in [subjectPattern : BOOLEAN, codeInSubject : BOOLEAN,
             keywordMatches : 0..3, codeNearKeyword : BOOLEAN,
             expiryMinutes : {Null, Some(10), Some(120)}, timeIndicator : BOOLEAN,
             knownService : BOOLEAN, securitySender : BOOLEAN,
             emailDate : {Null, Some(Epoch0 - 300), Some(Epoch0 - 1200)}] :
        /\ m.codeNearKeyword => m.keywordMatches > 0
        /\ m.expiryMinutes = Some(10) => m.timeIndicator }

QuietOtp ==
    [subjectPattern |-> FALSE, codeInSubject |-> FALSE,
     keywordMatches |-> 0, codeNearKeyword |-> FALSE,
     expiryMinutes |-> Null, timeIndicator |-> FALSE,
     knownService |-> FALSE, securitySender |-> FALSE, emailDate |-> Null]

\* messages that speak to one gate
Messages ==
    { [newsletter |-> n, calendar |-> QuietCalendar, otp |-> QuietOtp] :
        n \in NewsletterSignals }
    \cup { [newsletter |-> QuietNewsletter, calendar |-> c, otp |-> QuietOtp] :
        c \in CalendarSignals }
    \cup { [newsletter |-> QuietNewsletter, calendar |-> QuietCalendar, otp |-> o] :
        o \in OtpSignals }

InitGates ==
    /\ message \in Messages
    /\ lastIndex = [list \in PatternLists |-> 0]
    /\ detections = <<>>
    /\ now = Epoch0
    /\ ScorerIdle /\ AnalyzerIdle /\ StoreIdle /\ ClientIdle

\* one call of a gate's detect on the message
Detect(g) ==
    /\ Len(detections) < MaxDetects
    /\ detections' = Append(detections,
                            [gate |-> g, at |-> now,
                             result |-> GateDetect(g, message, lastIndex, now)])
    /\ lastIndex' = AfterDetect(g, message, lastIndex)
    /\ UNCHANGED <<message, now, scorerVars, analyzerVars, storeVars, clientVars>>

DetectNewsletter == detections = <<>> /\ Detect("newsletter")
DetectCalendar == detections = <<>> /\ Detect("calendar")
DetectOTP == detections = <<>> /\ Detect("otp")

NextGates == DetectNewsletter \/ DetectCalendar \/ DetectOTP

SpecGates == InitGates /\ [][NextGates]_vars

\* messages for repeated calls: each gate's part is quiet or has signals
RunMessages ==
    [newsletter : {QuietNewsletter,
                   [QuietNewsletter EXCEPT !.noReplySender = TRUE, !.subjectPattern = TRUE]},
     calendar : {QuietCalendar,
                 [QuietCalendar EXCEPT !.subjectPattern = TRUE, !.bodyMatches = 2]},
     otp : {QuietOtp,
            [QuietOtp EXCEPT !.subjectPattern = TRUE, !.keywordMatches = 1,
                             !.codeNearKeyword = TRUE, !.knownService = TRUE],
            [QuietOtp EXCEPT !.keywordMatches = 2, !.codeNearKeyword = TRUE,
                             !.expiryMinutes = Some(10), !.timeIndicator = TRUE,
                             !.emailDate = Some(Epoch0 - 300)]}]

InitGateRuns ==
    /\ message \in RunMessages
    /\ lastIndex = [list \in PatternLists |-> 0]
    /\ detections = <<>>
    /\ now = Epoch0
    /\ ScorerIdle /\ AnalyzerIdle /\ StoreIdle /\ ClientIdle

RunNewsletter == Detect("newsletter")
RunCalendar == Detect("calendar")
RunOTP == Detect("otp")

NextGateRuns == RunNewsletter \/ RunCalendar \/ RunOTP \/ Tick

SpecGateRuns == InitGateRuns /\ [][NextGateRuns]_vars

----------------------------------------------------------------------------
(* RelationshipScorer (PriorityScorer.ts:711-1123)                          *)
(*                                                                          *)
(* Scores are fractions of One (1.0 = One); dates are whole seconds. The    *)
(* store is the SQLite database behind DatabaseManager: the emails table    *)
(* (the interaction history) and the sender_relationships table.            *)

One == 100 * 100

SIX_MONTHS_SEC == 6 * 30 * 24 * 60 * 60
WEEK_SEC == 7 * 24 * 60 * 60
DAY_SEC == 24 * 60 * 60
RECENCY_DECAY_DAYS == 90
SPAM_THRESHOLD == 100

\* RelationshipScorer.WEIGHTS, in hundredths
RELATIONSHIP_WEIGHTS ==
    [REPLY_FREQUENCY |-> 35, TWO_WAY_EXCHANGES |-> 25, RECENCY |-> 20,
     EMAIL_VOLUME |-> 10, MANUAL_VIP |-> 10]

Abs(a) == IF a < 0 THEN 0 - a ELSE a

\* ceil(a / b) for b > 0
CeilDiv(a, b) == 0 - ((0 - a) \div b)

RECURSIVE SumOf(_, _)
SumOf(f, S) ==
    IF S = {} THEN 0
    ELSE LET x == CHOOSE y \in S : TRUE IN f[x] + SumOf(f, S \ {x})

\* the terms x^k / k! of the exponential series from the k-th on, in fractions of One
RECURSIVE ExpTerms(_, _, _)
ExpTerms(x, k, term) ==
    IF term = 0 \/ k > 9 THEN 0
    ELSE term + ExpTerms(x, k + 1, (term * x) \div (One * k))

\* Math.exp(-x) for x >= 0, x and the result in fractions of One
RECURSIVE ExpNeg(_)
ExpNeg(x) ==
    IF x > One
    THEN LET h == ExpNeg(x \div 2) IN (h * h) \div One
    ELSE (One * One) \div ExpTerms(x, 1, One)

\* Math.exp(-x) for any x
MathExpNeg(x) ==
    IF x >= 0 THEN ExpNeg(x) ELSE (One * One) \div Max(1, ExpNeg(0 - x))

\* SELECT * FROM emails WHERE sender_email = ? AND date >= ?
ReceivedEmails(d, senderEmail, sixMonthsAgo) ==
    { m \in d.emails : m.sender_email = senderEmail /\ m.date >= sixMonthsAgo }

\* SELECT * FROM emails WHERE sender_email = ? AND recipient_emails LIKE ? AND date >= ?
SentEmails(d, senderEmail, userEmail, sixMonthsAgo) ==
    { m \in d.emails : /\ m.sender_email = userEmail
                       /\ senderEmail \in m.recipient_emails
                       /\ m.date >= sixMonthsAgo }

countUserReplies(receivedEmails, sentEmails) ==
    Cardinality({ s \in sentEmails :
        \E r \in receivedEmails : s.date - r.date > 0 /\ s.date - r.date < WEEK_SEC })

countSenderReplies(sentEmails, receivedEmails) ==
    Cardinality({ r \in receivedEmails :
        \E s \in sentEmails : r.date - s.date > 0 /\ r.date - s.date < WEEK_SEC })

\* the latencies (whole minutes) of the sent emails that follow a received
\* one by less than 7 days, keyed by sent email
Latencies(receivedEmails, sentEmails) ==
    LET before(s) == { r \in receivedEmails : r.date < s.date }
        recent(s) == CHOOSE r \in before(s) : \A q \in before(s) : q.date <= r.date
        counted == { s \in sentEmails :
                       before(s) # {} /\ s.date - recent(s).date < WEEK_SEC }
    IN  [s \in counted |-> (s.date - recent(s).date) \div 60]

\* null without latencies, or their mean (whole minutes)
calculateAverageReplyLatency(receivedEmails, sentEmails) ==
    LET latencies == Latencies(receivedEmails, sentEmails)
    IN  IF DOMAIN latencies = {} THEN Null
        ELSE Some(SumOf(latencies, DOMAIN latencies) \div Cardinality(DOMAIN latencies))

\* analyzeEmailHistory(senderEmail, userEmail) on store d at clock reading t
analyzeEmailHistory(d, senderEmail, userEmail, t) ==
    LET sixMonthsAgo == t - SIX_MONTHS_SEC
        receivedEmails == ReceivedEmails(d, senderEmail, sixMonthsAgo)
        sentEmails == SentEmails(d, senderEmail, userEmail, sixMonthsAgo)
        userRepliesCount == countUserReplies(receivedEmails, sentEmails)
        senderRepliesCount == countSenderReplies(sentEmails, receivedEmails)
        allEmails == receivedEmails \cup sentEmails
        dates == { m.date : m \in allEmails }
        firstContact == IF allEmails # {}
                        THEN Some(CHOOSE x \in dates : \A y \in dates : x <= y)
                        ELSE Null
        lastContact == IF allEmails # {}
                       THEN Some(CHOOSE x \in dates : \A y \in dates : x >= y)
                       ELSE Null
    IN  [emails_received |-> Cardinality(receivedEmails),
         emails_sent_to |-> Cardinality(sentEmails),
         user_replies_count |-> userRepliesCount,
         sender_replies_count |-> senderRepliesCount,
         two_way_exchanges |-> Min(userRepliesCount, senderRepliesCount),
         first_contact_epoch |-> firstContact,
         last_contact_epoch |-> lastContact,
         avg_reply_latency_minutes |->
             calculateAverageReplyLatency(receivedEmails, sentEmails),
         total_interaction_days |->
             IF Truthy(firstContact) /\ Truthy(lastContact)
             THEN CeilDiv(lastContact[1] - firstContact[1], DAY_SEC)
             ELSE 0]

\* the linear decay without its floor at 0
scoreReplyFrequencyNoFloor(stats) ==
    IF stats.emails_received = 0 THEN One \div 2
    ELSE One - Abs((stats.user_replies_count * One) \div stats.emails_received
                   - One \div 2) * 2

scoreReplyFrequency(stats) ==
    IF stats.emails_received = 0 THEN One \div 2
    ELSE LET replyRatio == (stats.user_replies_count * One) \div stats.emails_received
             deviation == Abs(replyRatio - One \div 2)
         IN  Max(0, One - deviation * 2)

scoreTwoWayExchanges(stats) ==
    LET totalEmails == stats.emails_received + stats.emails_sent_to
    IN  IF totalEmails = 0 THEN 0
        ELSE Min(One, ((stats.two_way_exchanges * One) \div totalEmails) * 2)

\* scoreRecency at clock reading t
scoreRecency(stats, t) ==
    IF ~Truthy(stats.last_contact_epoch) THEN 0
    ELSE LET secondsSinceContact == t - stats.last_contact_epoch[1]
             decayFactor == (secondsSinceContact * 100) \div
                                (RECENCY_DECAY_DAYS * (DAY_SEC \div 100))
         IN  Max(0, Min(One, MathExpNeg(decayFactor)))

scoreEmailVolume(stats) ==
    IF stats.emails_received < 5 THEN (stats.emails_received * One) \div 5
    ELSE IF stats.emails_received <= 50 THEN One
    ELSE Max(0, One - ((stats.emails_received - 50) * One) \div SPAM_THRESHOLD)

\* the clamped weighted sum for every sender
FinalScoreWithoutBaseline(isNewSender, compositeScore) ==
    Max(0, Min(One, compositeScore))

\* isNewSender ? 0.5 : Math.max(0, Math.min(1, compositeScore))
FinalScore(isNewSender, compositeScore) ==
    IF isNewSender THEN One \div 2 ELSE Max(0, Min(One, compositeScore))

\* the RelationshipScore of stats (the history already analysed)
ScoreOfStats(senderEmail, stats, isManualVIP, t) ==
    LET replyFrequencyScore == scoreReplyFrequency(stats)
        twoWayExchangeScore == scoreTwoWayExchanges(stats)
        recencyScore == scoreRecency(stats, t)
        emailVolumeScore == scoreEmailVolume(stats)
        manualVIPScore == IF isManualVIP THEN One ELSE 0
        compositeScore ==
            (replyFrequencyScore * RELATIONSHIP_WEIGHTS.REPLY_FREQUENCY
             + twoWayExchangeScore * RELATIONSHIP_WEIGHTS.TWO_WAY_EXCHANGES
             + recencyScore * RELATIONSHIP_WEIGHTS.RECENCY
             + emailVolumeScore * RELATIONSHIP_WEIGHTS.EMAIL_VOLUME
             + manualVIPScore * RELATIONSHIP_WEIGHTS.MANUAL_VIP) \div 100
        isNewSender == stats.emails_received = 0 /\ stats.emails_sent_to = 0
    IN  [sender_email |-> senderEmail,
         score |-> FinalScore(isNewSender, compositeScore),
         is_vip |-> IF isManualVIP THEN 1 ELSE 0,
         components |-> [reply_frequency |-> replyFrequencyScore,
                         two_way_exchanges |-> twoWayExchangeScore,
                         recency |-> recencyScore,
                         email_volume |-> emailVolumeScore,
                         manual_vip |-> manualVIPScore],
         stats |-> stats]

\* calculateRelationshipScore(senderEmail, userEmail, isManualVIP) on store d
calculateRelationshipScore(d, senderEmail, userEmail, isManualVIP, t) ==
    ScoreOfStats(senderEmail, analyzeEmailHistory(d, senderEmail, userEmail, t),
                 isManualVIP, t)

\* the row the INSERT writes for a sender without one
InsertedRow(scoreResult, t) ==
    [emails_received |-> scoreResult.stats.emails_received,
     emails_sent_to |-> scoreResult.stats.emails_sent_to,
     user_replies_count |-> scoreResult.stats.user_replies_count,
     sender_replies_count |-> scoreResult.stats.sender_replies_count,
     two_way_exchanges |-> scoreResult.stats.two_way_exchanges,
     first_contact_epoch |-> scoreResult.stats.first_contact_epoch,
     last_contact_epoch |-> scoreResult.stats.last_contact_epoch,
     avg_reply_latency_minutes |-> scoreResult.stats.avg_reply_latency_minutes,
     relationship_score |-> scoreResult.score,
     is_vip |-> scoreResult.is_vip,
     created_at |-> t,
     updated_at |-> t]

\* ON CONFLICT(sender_email) DO UPDATE SET ...: first_contact_epoch and
\* created_at keep the values of the row that is there
UpdatedRow(row, scoreResult, t) ==
    [InsertedRow(scoreResult, t) EXCEPT
        !.first_contact_epoch = row.first_contact_epoch,
        !.created_at = row.created_at]

\* an UPDATE without its conflict target: every row of the table is written
UpsertEveryRow(rows, scoreResult, t) ==
    [s \in DOMAIN rows |->
        IF rows[s] = Null /\ s # scoreResult.sender_email THEN Null
        ELSE IF rows[s] = Null THEN Some(InsertedRow(scoreResult, t))
        ELSE Some(UpdatedRow(rows[s][1], scoreResult, t))]

\* INSERT INTO sender_relationships ... ON CONFLICT(sender_email) DO UPDATE
Upsert(rows, scoreResult, t) ==
    [rows EXCEPT ![scoreResult.sender_email] =
        IF @ = Null THEN Some(InsertedRow(scoreResult, t))
        ELSE Some(UpdatedRow(@[1], scoreResult, t))]

\* the store after updateSenderRelationship(senderEmail, userEmail, isManualVIP)
updateSenderRelationship(d, senderEmail, userEmail, isManualVIP, t) ==
    [d EXCEPT !.sender_relationships =
        Upsert(@, calculateRelationshipScore(d, senderEmail, userEmail, isManualVIP, t), t)]

\* SELECT relationship_score, is_vip FROM sender_relationships WHERE sender_email = ?
getRelationshipFromDB(d, senderEmail) ==
    IF d.sender_relationships[senderEmail] = Null THEN Null
    ELSE Some([relationship_score |-> d.sender_relationships[senderEmail][1].relationship_score,
               is_vip |-> d.sender_relationships[senderEmail][1].is_vip])

----------------------------------------------------------------------------
(* The store and the calls of the RelationshipScorer *)

Senders == {"alice@example.com", "bob@example.com"}
UserEmail == "me@example.com"

\* the clock reading when the scorer is first called: a year after Epoch0
StoreEpoch == Epoch0 + 365 * DAY_SEC

Email(id, from, to, date) ==
    [id |-> id, sender_email |-> from, recipient_emails |-> {to}, date |-> date]

\* rows of the emails table: an exchange with alice (she writes, the user
\* answers a day later, she answers back), a message of hers that leaves the
\* six-month window half an hour after StoreEpoch, and a message from bob
EmailPool ==
    {Email(1, "alice@example.com", UserEmail, StoreEpoch - 10 * DAY_SEC),
     Email(2, UserEmail, "alice@example.com", StoreEpoch - 9 * DAY_SEC),
     Email(3, "alice@example.com", UserEmail, StoreEpoch - 8 * DAY_SEC),
     Email(4, "alice@example.com", UserEmail, StoreEpoch - SIX_MONTHS_SEC + 1800),
     Email(5, "bob@example.com", UserEmail, StoreEpoch - DAY_SEC)}

\* a row written for alice a month before StoreEpoch
StaleRow ==
    [emails_received |-> 1, emails_sent_to |-> 0, user_replies_count |-> 0,
     sender_replies_count |-> 0, two_way_exchanges |-> 0,
     first_contact_epoch |-> Some(StoreEpoch - 200 * DAY_SEC),
     last_contact_epoch |-> Some(StoreEpoch - 200 * DAY_SEC),
     avg_reply_latency_minutes |-> Null,
     relationship_score |-> 1234, is_vip |-> 0,
     created_at |-> StoreEpoch - 30 * DAY_SEC,
     updated_at |-> StoreEpoch - 30 * DAY_SEC]

RelationshipTables ==
    {[s \in Senders |-> Null],
     [s \in Senders |-> IF s = "alice@example.com" THEN Some(StaleRow) ELSE Null]}

InitStore ==
    /\ db \in [emails : SUBSET EmailPool, sender_relationships : RelationshipTables]
    /\ relationships = <<>>
    /\ history = <<>>
    /\ now = StoreEpoch
    /\ ScorerIdle /\ AnalyzerIdle /\ GatesIdle /\ ClientIdle

\* one call of a method of the scorer: what it returned and what it left in the store
StoreCall(op, senderEmail, isManualVIP, out, after) ==
    /\ Len(relationships) < MaxStoreCalls
    /\ relationships' = Append(relationships,
                               [op |-> op, sender |-> senderEmail, vip |-> isManualVIP,
                                at |-> now, before |-> db, out |-> out])
    /\ db' = after
    /\ UNCHANGED <<now, history, scorerVars, analyzerVars, gateVars, clientVars>>

CalculateRelationshipScore ==
    \E senderEmail \in Senders, isManualVIP \in BOOLEAN :
        StoreCall("calculateRelationshipScore", senderEmail, isManualVIP,
                  Some(calculateRelationshipScore(db, senderEmail, UserEmail,
                                                  isManualVIP, now)),
                  db)

UpdateSenderRelationship ==
    \E senderEmail \in Senders, isManualVIP \in BOOLEAN :
        StoreCall("updateSenderRelationship", senderEmail, isManualVIP, Null,
                  updateSenderRelationship(db, senderEmail, UserEmail, isManualVIP, now))

GetRelationshipFromDB ==
    \E senderEmail \in Senders :
        StoreCall("getRelationshipFromDB", senderEmail, FALSE,
                  getRelationshipFromDB(db, senderEmail), db)

\* time passes between the calls
StoreTick ==
    /\ now < StoreEpoch + MaxTicks * TickSec
    /\ now' = now + TickSec
    /\ UNCHANGED <<scorerVars, analyzerVars, gateVars, storeVars, clientVars>>

NextStore ==
    CalculateRelationshipScore \/ UpdateSenderRelationship \/ GetRelationshipFromDB
        \/ StoreTick

SpecStore == InitStore /\ [][NextStore]_vars

----------------------------------------------------------------------------
(* calculateRelationshipScore on a stubbed history, as the repository's     *)
(* tests run it: analyzeEmailHistory returns the given EmailHistoryStats    *)

\* message counts around the breakpoints 5, 50 and 150 of scoreEmailVolume
ReceivedCounts == {0, 1, 4, 5, 50, 51, 150, 151, 400}
SentCounts == {0, 1, 3}

\* last contact: none, or a day in the future (a message dated ahead of the
\* clock passes 'date >= ?'), now, or 1, 90 and 179 days ago
LastContacts ==
    {Null, Some(StoreEpoch + DAY_SEC), Some(StoreEpoch), Some(StoreEpoch - DAY_SEC),
     Some(StoreEpoch - 90 * DAY_SEC), Some(StoreEpoch - 179 * DAY_SEC)}

\* the statistics analyzeEmailHistory can return: replies are counted among
\* the messages of the respective direction, and only with messages in both
\* directions; there is a last contact exactly when there is a message
StatsPool ==
    { st \in [emails_received : ReceivedCounts, emails_sent_to : SentCounts,
              user_replies_count : SentCounts, sender_replies_count : {0, 1, 4},
              two_way_exchanges : 0..3,
              first_contact_epoch : LastContacts, last_contact_epoch : LastContacts,
              avg_reply_latency_minutes : {Null, Some(30)},
              total_interaction_days : {0, 1, 90}] :
        /\ st.user_replies_count <= st.emails_sent_to
        /\ st.sender_replies_count <= st.emails_received
        /\ (st.emails_received = 0 \/ st.emails_sent_to = 0)
               => (st.user_replies_count = 0 /\ st.sender_replies_count = 0)
        /\ st.two_way_exchanges = Min(st.user_replies_count, st.sender_replies_count)
        /\ (st.emails_received + st.emails_sent_to = 0) <=> (st.last_contact_epoch = Null)
        /\ st.first_contact_epoch = st.last_contact_epoch
        /\ st.total_interaction_days = 0
        /\ (st.avg_reply_latency_minutes # Null) <=> (st.user_replies_count > 0) }

InitScores ==
    /\ history \in StatsPool
    /\ db = <<>>
    /\ relationships = <<>>
    /\ now = StoreEpoch
    /\ ScorerIdle /\ AnalyzerIdle /\ GatesIdle /\ ClientIdle

\* calculateRelationshipScore with analyzeEmailHistory stubbed
ScoreStubbedHistory ==
    \E senderEmail \in Senders, isManualVIP \in BOOLEAN :
        /\ relationships = <<>>
        /\ relationships' =
               <<[op |-> "calculateRelationshipScore", sender |-> senderEmail,
                  vip |-> isManualVIP, at |-> now, before |-> db,
                  out |-> Some(ScoreOfStats(senderEmail, history, isManualVIP, now))]>>
        /\ UNCHANGED <<now, db, history, scorerVars, analyzerVars, gateVars, clientVars>>

NextScores == ScoreStubbedHistory

SpecScores == InitScores /\ [][NextScores]_vars

----------------------------------------------------------------------------
(* ImapManager (unnamed/part_011:125-458): connection management            *)
(*                                                                          *)
(* The manager runs on the Node.js event loop: each step below is one       *)
(* callback run to completion, together with the promise continuations it   *)
(* releases. The Imap objects (node-imap) are the environment: each may      *)
(* emit 'ready', 'error' and 'end' to the listeners connect() attached.      *)

maxReconnectAttempts == 5
BASE_DELAY_MS == 1000
MAX_DELAY_MS == 30000

RECURSIVE Pow2(_)
Pow2(n) == IF n = 0 THEN 1 ELSE 2 * Pow2(n - 1)

\* the fields of the manager, the Imap objects and the pending timers
Manager ==
    [connectionState |-> connectionState, reconnectAttempts |-> reconnectAttempts,
     reconnectTimer |-> reconnectTimer, lastConnectionError |-> lastConnectionError,
     imap |-> imap, conns |-> conns, timers |-> timers, backoff |-> backoff]

Become(m) ==
    /\ connectionState' = m.connectionState
    /\ reconnectAttempts' = m.reconnectAttempts
    /\ reconnectTimer' = m.reconnectTimer
    /\ lastConnectionError' = m.lastConnectionError
    /\ imap' = m.imap
    /\ conns' = m.conns
    /\ timers' = m.timers
    /\ backoff' = m.backoff

\* this.imap && this.imap.state === 'authenticated'
Authenticated(m) ==
    m.imap # Null /\ m.conns[m.imap[1]].phase = "authenticated"

\* a delay that doubles without the 30 s cap and from 2 s on
ReconnectDelayFromTwo(attempts) == BASE_DELAY_MS * Pow2(attempts + 1)

\* Math.min(1000 * Math.pow(2, this.reconnectAttempts), 30000)
ReconnectDelay(attempts) == Min(BASE_DELAY_MS * Pow2(attempts), MAX_DELAY_MS)

\* scheduling whenever the attempts allow it, a timer pending or not
scheduleReconnectUnguarded(m) ==
    IF m.reconnectAttempts >= maxReconnectAttempts THEN m
    ELSE [m EXCEPT !.reconnectAttempts = @ + 1,
                   !.timers = Append(@, ReconnectDelay(m.reconnectAttempts)),
                   !.reconnectTimer = Some(ReconnectDelay(m.reconnectAttempts)),
                   !.backoff = Append(@, ReconnectDelay(m.reconnectAttempts))]

\* scheduleReconnect(): the handle refers to the timer set last
scheduleReconnect(m) ==
    IF m.reconnectTimer # Null \/ m.reconnectAttempts >= maxReconnectAttempts THEN m
    ELSE [m EXCEPT !.reconnectAttempts = @ + 1,
                   !.timers = Append(@, ReconnectDelay(m.reconnectAttempts)),
                   !.reconnectTimer = Some(ReconnectDelay(m.reconnectAttempts)),
                   !.backoff = Append(@, ReconnectDelay(m.reconnectAttempts))]

\* if (this.reconnectTimer) { clearTimeout(this.reconnectTimer); this.reconnectTimer = null }
clearReconnectTimer(m) ==
    IF m.reconnectTimer = Null THEN m
    ELSE [m EXCEPT !.timers = SubSeq(@, 1, Len(@) - 1), !.reconnectTimer = Null]

\* new Imap(config) with the listeners connect() attaches, after imap.connect()
NewImap ==
    [phase |-> "connecting", listeners |-> TRUE, onceReady |-> TRUE,
     onceError |-> TRUE, ended |-> FALSE]

\* connect(), up to the promise it returns
connect(m) ==
    IF Authenticated(m) /\ m.connectionState = "connected" THEN m
    ELSE [clearReconnectTimer(m) EXCEPT !.connectionState = "connecting",
                                        !.conns = Append(@, NewImap),
                                        !.imap = Some(Len(m.conns) + 1)]

\* disconnect()
disconnect(m) ==
    [clearReconnectTimer(m) EXCEPT
        !.connectionState = "disconnected",
        !.conns = IF m.imap = Null THEN @ ELSE [@ EXCEPT ![m.imap[1]].ended = TRUE],
        !.imap = Null]

\* reconnect(), up to the promise of connect() it awaits
reconnect(m) ==
    connect([m EXCEPT
        !.reconnectTimer = Null,
        !.connectionState = "reconnecting",
        !.conns = IF m.imap = Null THEN @
                  ELSE [@ EXCEPT ![m.imap[1]] =
                           [@ EXCEPT !.listeners = FALSE, !.onceReady = FALSE,
                                     !.onceError = FALSE, !.ended = TRUE]],
        !.imap = Null])

\* the once('ready') listener of Imap object i
onReady(m, i) ==
    IF ~m.conns[i].onceReady THEN m
    ELSE [m EXCEPT !.connectionState = "connected",
                   !.reconnectAttempts = 0,
                   !.lastConnectionError = Null,
                   !.conns[i].onceReady = FALSE,
                   !.backoff = Append(@, 0)]

\* the once('error') listener, then the persistent on('error') listener
onError(m, i) ==
    LET once == IF ~m.conns[i].onceError THEN m
                ELSE [m EXCEPT !.connectionState = "error",
                               !.lastConnectionError = Some("err"),
                               !.conns[i].onceError = FALSE]
    IN  IF ~m.conns[i].listeners THEN once
        ELSE scheduleReconnect([once EXCEPT !.connectionState = "error",
                                            !.lastConnectionError = Some("err")])

\* the on('end') listener
onEnd(m, i) ==
    IF m.conns[i].listeners /\ m.connectionState = "connected"
    THEN scheduleReconnect([m EXCEPT !.connectionState = "disconnected"])
    ELSE m

\* ensureConnected(), up to its first await: the manager afterwards, where
\* the call stands, and the Imap object whose connect() promise it awaits
ensureConnected(m) ==
    IF m.connectionState = "connected" /\ Authenticated(m)
    THEN [m |-> m, pc |-> "returned", conn |-> 0]
    ELSE IF m.connectionState \in {"connecting", "reconnecting"}
    THEN [m |-> m, pc |-> "polling", conn |-> 0]
    ELSE IF m.connectionState \in {"disconnected", "error"}
    THEN [m |-> connect(m), pc |-> "awaiting", conn |-> Len(m.conns) + 1]
    ELSE [m |-> m, pc |-> "returned", conn |-> 0]

----------------------------------------------------------------------------
(* The ImapManager's callers, timers and connections *)

\* an Imap object whose socket is closed: it emits nothing further
Closed ==
    [phase |-> "disconnected", listeners |-> FALSE, onceReady |-> FALSE,
     onceError |-> FALSE, ended |-> TRUE]

\* the manager once the listeners of the closing Imap object i have run
Close(m, i) == [m EXCEPT !.conns[i] = Closed]

InitImap ==
    /\ connectionState = "disconnected"
    /\ reconnectAttempts = 0
    /\ reconnectTimer = Null
    /\ lastConnectionError = Null
    /\ imap = Null
    /\ conns = <<>>
    /\ timers = <<>>
    /\ calls = <<>>
    /\ backoff = <<>>
    /\ quiet = FALSE
    /\ now = Epoch0
    /\ ScorerIdle /\ AnalyzerIdle /\ GatesIdle /\ StoreIdle /\ UiIdle

\* what a call of ensureConnected finds when it completes
Completion(m) ==
    Some([connectionState |-> m.connectionState, authenticated |-> Authenticated(m)])

\* a call of ensureConnected after the run r of its body
CallAfter(r) ==
    [pc |-> r.pc, conn |-> r.conn,
     found |-> IF r.pc = "returned" THEN Completion(r.m) ELSE Null]

\* the calls after the connect() promise of Imap object i settled
Settle(i, pc, m) ==
    [k \in DOMAIN calls |->
        IF calls[k].pc = "awaiting" /\ calls[k].conn = i
        THEN [calls[k] EXCEPT !.pc = pc, !.found = Completion(m)]
        ELSE calls[k]]

\* a caller (getRecentEmails) calls ensureConnected
EnsureConnectedCalled(maxCalls, maxConns) ==
    LET r == ensureConnected(Manager)
    IN  /\ Len(calls) < maxCalls
        /\ Len(r.m.conns) <= maxConns
        /\ Become(r.m)
        /\ calls' = Append(calls, CallAfter(r))
        /\ quiet' = FALSE
        /\ UNCHANGED <<now, scorerVars, analyzerVars, gateVars, storeVars, uiVars>>

\* the 1000 ms timer of a waiting ensureConnected fires: it tries again
PollTimerFires(maxConns) ==
    \E k \in DOMAIN calls :
        LET r == ensureConnected(Manager)
        IN  /\ calls[k].pc = "polling"
            /\ Len(r.m.conns) <= maxConns
            /\ Become(r.m)
            /\ calls' = [calls EXCEPT ![k] = CallAfter(r)]
            /\ quiet' = FALSE
            /\ UNCHANGED <<now, scorerVars, analyzerVars, gateVars, storeVars, uiVars>>

\* a caller calls disconnect()
Disconnect ==
    /\ Become(disconnect(Manager))
    /\ quiet' = TRUE
    /\ UNCHANGED <<calls, now, scorerVars, analyzerVars, gateVars, storeVars, uiVars>>

\* a reconnect timer fires: reconnect()
ReconnectTimerFires(maxConns) ==
    \E j \in DOMAIN timers :
        LET fired == [Manager EXCEPT
                         !.timers = SubSeq(@, 1, j - 1) \o SubSeq(@, j + 1, Len(@))]
        IN  /\ Len(conns) < maxConns
            /\ Become(reconnect(fired))
            /\ UNCHANGED <<calls, quiet, now, scorerVars, analyzerVars, gateVars,
                           storeVars, uiVars>>

\* Imap object i reports 'ready': it is authenticated. An object that was
\* told to end() while connecting logs out before it logs in: no 'ready'
ImapReady ==
    \E i \in DOMAIN conns :
        LET m == onReady([Manager EXCEPT !.conns[i].phase = "authenticated"], i)
        IN  /\ conns[i].phase = "connecting"
            /\ ~conns[i].ended
            /\ Become(m)
            /\ calls' = IF conns[i].onceReady THEN Settle(i, "returned", m) ELSE calls
            /\ UNCHANGED <<quiet, now, scorerVars, analyzerVars, gateVars, storeVars, uiVars>>

\* Imap object i reports 'error' to its listeners (a socket error, a timeout,
\* a failed login); the connection is lost with it
ImapError ==
    \E i \in DOMAIN conns :
        LET m == onError(Manager, i)
        IN  /\ conns[i].phase \in {"connecting", "authenticated"}
            /\ conns[i].listeners \/ conns[i].onceError
            /\ Become(Close(m, i))
            /\ calls' = IF conns[i].onceError THEN Settle(i, "threw", m) ELSE calls
            /\ UNCHANGED <<quiet, now, scorerVars, analyzerVars, gateVars, storeVars, uiVars>>

\* Imap object i reports 'end': the server closed the session, or the
\* session that end() logged out was closed
ImapEnd ==
    \E i \in DOMAIN conns :
        /\ conns[i].phase = "authenticated" \/ (conns[i].phase = "connecting" /\ conns[i].ended)
        /\ Become(Close(onEnd(Manager, i), i))
        /\ UNCHANGED <<calls, quiet, now, scorerVars, analyzerVars, gateVars, storeVars, uiVars>>

CallEnsureConnected == EnsureConnectedCalled(MaxEnsure, MaxConns)
PollFires == PollTimerFires(MaxConns)
TimerFires == ReconnectTimerFires(MaxConns)

NextImap ==
    CallEnsureConnected \/ PollFires \/ Disconnect \/ TimerFires \/ ImapReady \/ ImapError \/ ImapEnd

SpecImap == InitImap /\ [][NextImap]_vars

\* a connection attempt that was not told to end() is settled by the
\* library: 'ready', or 'error' at the latest when connTimeout or
\* authTimeout (10 s each) runs out
AttemptSettles ==
    \E i \in DOMAIN conns :
        /\ conns[i].phase = "connecting" /\ ~conns[i].ended
        /\ ImapReady \/ ImapError
        /\ conns'[i].phase # "connecting"

\* the event loop runs every timer that is due, and attempts settle
SpecImapFair ==
    SpecImap /\ WF_vars(PollFires) /\ WF_vars(TimerFires) /\ WF_vars(AttemptSettles)

\* a connection and every reconnect attempt the manager allows after it
RetryConns == maxReconnectAttempts + 1

RetryCall == EnsureConnectedCalled(MaxRetryCalls, RetryConns)
RetryPoll == PollTimerFires(RetryConns)
RetryTimerFires == ReconnectTimerFires(RetryConns)

NextRetry ==
    RetryCall \/ RetryPoll \/ Disconnect \/ RetryTimerFires \/ ImapReady \/ ImapError \/ ImapEnd

SpecRetry == InitImap /\ [][NextRetry]_vars

----------------------------------------------------------------------------
(* useEmailState and useKeyboardShortcuts: the list view *)

\* useEmailState: const [emailsPerPage] = useState(15)
emailsPerPage == 15

\* db.getEmailsWithPriority(100)
LOAD_LIMIT == 100

\* strings are sequences of characters
Lower(c) ==
    CASE c = "I" -> "i"
      [] c = "H" -> "h"
      [] OTHER -> c

toLowerCase(s) == [i \in DOMAIN s |-> Lower(s[i])]

\* String.prototype.includes
includes(s, q) ==
    \E i \in 0 .. (Len(s) - Len(q)) : SubSeq(s, i + 1, i + Len(q)) = q

\* optional chaining: email.sender_name?.toLowerCase().includes(query)
includesOpt(o, q) == o # Null /\ includes(toLowerCase(o[1]), q)

\* Array.prototype.slice(start, end)
SliceIndex(len, k) == IF k < 0 THEN Max(len + k, 0) ELSE Min(k, len)

slice(list, start, end) ==
    SubSeq(list, SliceIndex(Len(list), start) + 1, SliceIndex(Len(list), end))

\* the rows of the emails table: every fifth one is an invoice from billing
EmailRow(id) ==
    [id |-> id,
     subject |-> IF id % 5 = 0 THEN <<"I", "n", "v">> ELSE <<"H", "i">>,
     sender_email |-> IF id % 5 = 0 THEN <<"b", "@", "x">> ELSE <<"a", "@", "x">>,
     sender_name |-> IF id % 2 = 0 THEN Some(<<"A", "l">>) ELSE Null,
     body_text |-> IF id % 3 = 0 THEN Some(<<"h", "i", "!">>) ELSE Null]

\* the table with n rows, newest first
Inbox(n) == [i \in 1 .. n |-> EmailRow(n + 1 - i)]

\* what the search box can hold
Queries == {<<>>, <<"i", "n", "v">>, <<"b", "@">>, <<"z">>}

\* the scores prioritizeEmails puts into emailPriorities
ScoreFor(id) == IF id % 4 = 0 THEN 90 ELSE IF id % 4 = 1 THEN 0 ELSE 35

\* db.getEmailsWithPriority(100)
getEmailsWithPriority(limit) == SubSeq(inbox, 1, Min(limit, Len(inbox)))

\* emailPriorities.get(a.id)?.score || 50
SortScore(e) ==
    IF e.id \in DOMAIN emailPriorities /\ emailPriorities[e.id] # 0
    THEN emailPriorities[e.id]
    ELSE 50

\* [...filtered].sort((a, b) => priorityB - priorityA): stable, highest score first
RECURSIVE SortByScore(_, _)
SortByScore(list, levels) ==
    IF levels = {} THEN <<>>
    ELSE LET top == CHOOSE s \in levels : \A t \in levels : t <= s
             Has(e) == SortScore(e) = top
         IN SelectSeq(list, Has) \o SortByScore(list, levels \ {top})

Matches(email, query) ==
    \/ includes(toLowerCase(email.subject), query)
    \/ includes(toLowerCase(email.sender_email), query)
    \/ includesOpt(email.sender_name, query)
    \/ includesOpt(email.body_text, query)

\* the useMemo of useEmailState; sortByPriority is always true
filteredEmails ==
    LET query == toLowerCase(searchQuery)
        Keep(e) == Matches(e, query)
        filtered == IF searchQuery # <<>> THEN SelectSeq(emails, Keep) ELSE emails
    IN SortByScore(filtered, {SortScore(filtered[i]) : i \in DOMAIN filtered})

totalPages == CeilDiv(Len(filteredEmails), emailsPerPage)

displayEmails ==
    slice(filteredEmails, currentPage * emailsPerPage,
          currentPage * emailsPerPage + emailsPerPage)

\* displayEmails[selectedIndex] || null; selectedIndex counts from 0
selectedEmail ==
    IF selectedIndex \in 0 .. (Len(displayEmails) - 1)
    THEN Some(displayEmails[selectedIndex + 1])
    ELSE Null

\* setCurrentPage(prev => Math.min(totalPages - 1, prev + 1))
nextPage == Min(totalPages - 1, currentPage + 1)

\* setCurrentPage(prev => Math.max(0, prev - 1))
prevPage == Max(0, currentPage - 1)

\* setCurrentPage(Math.max(0, Math.min(totalPages - 1, page)))
goToPage(page) == Max(0, Min(totalPages - 1, page))

\* the rows a sync can add to the table at once
SyncSizes == {1, emailsPerPage}

\* the list view after the mount effect has loaded the table
InitList ==
    /\ inbox \in {Inbox(0), Inbox(emailsPerPage + 1)}
    /\ emails = getEmailsWithPriority(LOAD_LIMIT)
    /\ selectedIndex = 0
    /\ view = "list"
    /\ searchQuery = <<>>
    /\ currentPage = 0
    /\ emailPriorities = <<>>
    /\ now = Epoch0
    /\ ScorerIdle /\ AnalyzerIdle /\ GatesIdle /\ StoreIdle /\ ImapIdle
    /\ CacheIdle /\ AIIdle

\* everything the list view leaves alone
listOthers ==
    <<now, scorerVars, analyzerVars, gateVars, storeVars, imapVars, cacheVars, aiVars>>

\* 'j' or the down arrow
KeyDown ==
    /\ view = "list"
    /\ selectedIndex' = Min(Len(displayEmails) - 1, selectedIndex + 1)
    /\ UNCHANGED <<inbox, emails, view, searchQuery, currentPage, emailPriorities, listOthers>>

\* 'k' or the up arrow
KeyUp ==
    /\ view = "list"
    /\ selectedIndex' = Max(0, selectedIndex - 1)
    /\ UNCHANGED <<inbox, emails, view, searchQuery, currentPage, emailPriorities, listOthers>>

\* 'g'
KeyTop ==
    /\ view = "list"
    /\ selectedIndex' = 0
    /\ UNCHANGED <<inbox, emails, view, searchQuery, currentPage, emailPriorities, listOthers>>

\* 'G'
KeyBottom ==
    /\ view = "list"
    /\ selectedIndex' = Len(displayEmails) - 1
    /\ UNCHANGED <<inbox, emails, view, searchQuery, currentPage, emailPriorities, listOthers>>

\* page down or the space bar
KeyPageDown ==
    /\ view = "list"
    /\ IF selectedIndex = Len(displayEmails) - 1 /\ currentPage < totalPages - 1
       THEN /\ currentPage' = nextPage
            /\ selectedIndex' = 0
       ELSE /\ selectedIndex' = Min(Len(displayEmails) - 1, selectedIndex + 5)
            /\ UNCHANGED currentPage
    /\ UNCHANGED <<inbox, emails, view, searchQuery, emailPriorities, listOthers>>

\* page up
KeyPageUp ==
    /\ view = "list"
    /\ IF selectedIndex = 0 /\ currentPage > 0
       THEN /\ currentPage' = prevPage
            /\ selectedIndex' = Len(displayEmails) - 1
       ELSE /\ selectedIndex' = Max(0, selectedIndex - 5)
            /\ UNCHANGED currentPage
    /\ UNCHANGED <<inbox, emails, view, searchQuery, emailPriorities, listOthers>>

\* 'n' when there is a next page
KeyNextPage ==
    /\ view = "list"
    /\ currentPage < totalPages - 1
    /\ currentPage' = nextPage
    /\ selectedIndex' = 0
    /\ UNCHANGED <<inbox, emails, view, searchQuery, emailPriorities, listOthers>>

\* 'N' when there is a previous page
KeyPrevPage ==
    /\ view = "list"
    /\ currentPage > 0
    /\ currentPage' = prevPage
    /\ selectedIndex' = 0
    /\ UNCHANGED <<inbox, emails, view, searchQuery, emailPriorities, listOthers>>

\* goToPage(page)
GoToPage ==
    /\ view = "list"
    /\ \E page \in 0 .. 2 : currentPage' = goToPage(page)
    /\ UNCHANGED <<inbox, emails, selectedIndex, view, searchQuery, emailPriorities, listOthers>>

\* the return key
KeyReturn ==
    /\ view = "list"
    /\ selectedEmail # Null
    /\ view' = "detail"
    /\ UNCHANGED <<inbox, emails, selectedIndex, searchQuery, currentPage, emailPriorities,
                   listOthers>>

\* '/'
KeySearch ==
    /\ view = "list"
    /\ view' = "search"
    /\ selectedIndex' = 0
    /\ UNCHANGED <<inbox, emails, searchQuery, currentPage, emailPriorities, listOthers>>

\* 'c', and 'r', 'f', 'R' when an email is selected
KeyCompose ==
    /\ view = "list"
    /\ view' = "compose"
    /\ UNCHANGED <<inbox, emails, selectedIndex, searchQuery, currentPage, emailPriorities,
                   listOthers>>

\* 'm' or 't' when an email is selected: the handler, then refreshEmails()
KeyMarkOrStar ==
    /\ view = "list"
    /\ selectedEmail # Null
    /\ emails' = getEmailsWithPriority(LOAD_LIMIT)
    /\ UNCHANGED <<inbox, selectedIndex, view, searchQuery, currentPage, emailPriorities,
                   listOthers>>

\* 's': handleSync inserts the fetched emails, then refreshEmails()
KeySync(maxInbox) ==
    /\ view = "list"
    /\ \E k \in SyncSizes :
        /\ Len(inbox) + k <= maxInbox
        /\ inbox' = Inbox(Len(inbox) + k)
    /\ emails' = SubSeq(inbox', 1, Min(LOAD_LIMIT, Len(inbox')))
    /\ UNCHANGED <<selectedIndex, view, searchQuery, currentPage, emailPriorities, listOthers>>

\* the search box: TextInput's onChange={setSearchQuery}
TypeQuery ==
    /\ view = "search"
    /\ \E q \in Queries : q # searchQuery /\ searchQuery' = q
    /\ UNCHANGED <<inbox, emails, selectedIndex, view, currentPage, emailPriorities, listOthers>>

\* escape in the search view; the detail view's onClose; the composer's onCancel
BackToList ==
    /\ view \in {"search", "detail", "compose"}
    /\ view' = "list"
    /\ UNCHANGED <<inbox, emails, selectedIndex, searchQuery, currentPage, emailPriorities,
                   listOthers>>

\* the detail view's onMarkUnread: the handler, refreshEmails(), setView('list')
DetailMarkUnread ==
    /\ view = "detail"
    /\ emails' = getEmailsWithPriority(LOAD_LIMIT)
    /\ view' = "list"
    /\ UNCHANGED <<inbox, selectedIndex, searchQuery, currentPage, emailPriorities, listOthers>>

\* prioritizeEmails(allEmails.slice(0, 20)) has filled emailPriorities
PrioritiesArrive ==
    /\ emails # <<>>
    /\ emailPriorities' =
           [id \in {emails[i].id : i \in 1 .. Min(20, Len(emails))} |-> ScoreFor(id)]
    /\ emailPriorities' # emailPriorities
    /\ UNCHANGED <<inbox, emails, selectedIndex, view, searchQuery, currentPage, listOthers>>

Sync == KeySync(MaxInbox)

NextList ==
    \/ KeyDown \/ KeyUp \/ KeyTop \/ KeyBottom \/ KeyPageDown \/ KeyPageUp
    \/ KeyNextPage \/ KeyPrevPage \/ GoToPage \/ KeyReturn \/ KeySearch \/ KeyCompose
    \/ KeyMarkOrStar \/ Sync \/ TypeQuery \/ BackToList \/ DetailMarkUnread
    \/ PrioritiesArrive

SpecList == InitList /\ [][NextList]_vars

----------------------------------------------------------------------------
(* AIManager: prioritizeEmail and its heuristic fallback *)

\* JavaScript values as the code meets them in a parsed model reply
JsVal(k, v) == [k |-> k, v |-> v]
Undefined == JsVal("undefined", 0)
JsNull == JsVal("null", 0)
Num(n) == JsVal("num", n)
NaN == JsVal("nan", 0)
NumStr(n) == JsVal("numstr", n)    \* a string that reads as the number n: "85"
Str == JsVal("str", 0)             \* a string that is no number: "high"
EmptyStr == JsVal("emptystr", 0)
JsTrue == JsVal("true", 0)
JsFalse == JsVal("false", 0)
EmptyArr == JsVal("emptyarr", 0)   \* []
Arr == JsVal("arr", 0)             \* an array of several elements

\* ToBoolean
JsTruthy(x) ==
    /\ x.k \notin {"undefined", "null", "nan", "emptystr", "false"}
    /\ ~(x.k = "num" /\ x.v = 0)

\* a || b
Or(a, b) == IF JsTruthy(a) THEN a ELSE b

\* ToNumber
ToNumber(x) ==
    CASE x.k \in {"num", "numstr"} -> Num(x.v)
      [] x.k = "true" -> Num(1)
      [] x.k \in {"null", "false", "emptystr", "emptyarr"} -> Num(0)
      [] OTHER -> NaN

\* Math.min(a, b) and Math.max(a, b): NaN when an argument converts to NaN
Math_min(a, b) ==
    LET x == ToNumber(a)
        y == ToNumber(b)
    IN IF x.k = "nan" \/ y.k = "nan" THEN NaN ELSE Num(Min(x.v, y.v))

Math_max(a, b) ==
    LET x == ToNumber(a)
        y == ToNumber(b)
    IN IF x.k = "nan" \/ y.k = "nan" THEN NaN ELSE Num(Max(x.v, y.v))

\* A text is the set of the phrases of the rules that occur in it; "123456" stands for a
\* run of 4 to 6 digits, ".edu" in a sender for an address whose domain ends in .edu.
includesAny(t, phrases) == t \cap phrases # {}

\* email.body_text || email.snippet || ''
BodyOf(email) == IF email.body_text # {} THEN email.body_text ELSE email.snippet

isOTP(subject, body) ==
    \/ includesAny(subject, {"verification code", "otp", "123456"})
    \/ includesAny(body, {"verification code", "one-time password", "security code"})

isSecurityAlert(subject) ==
    includesAny(subject, {"unusual sign-in", "suspicious activity", "security alert",
                          "account breach", "unauthorized access"})

isMarketing(subject, body, sender) ==
    \/ includesAny(body, {"unsubscribe"})
    \/ includesAny(subject, {"sale", "% off", "deal", "offer", "promo"})
    \/ includesAny(sender, {"marketing", "promo"})

isNewsletter(subject, sender) ==
    \/ includesAny(subject, {"newsletter", "weekly digest", "daily brief"})
    \/ includesAny(sender, {"newsletter"})

isTransactional(subject) ==
    includesAny(subject, {"receipt", "order confirmation", "your order", "has shipped",
                          "invoice", "payment received"})

isAutomated(sender) ==
    includesAny(sender, {"noreply", "no-reply", "donotreply", "notification@"})

\* STEP 1: the type of the email sets the base score
BaseScore(subject, body, sender) ==
    CASE isOTP(subject, body) -> [score |-> 35, reason |-> "2FA/OTP token"]
      [] ~isOTP(subject, body) /\ isSecurityAlert(subject) ->
            [score |-> 90, reason |-> "Security alert"]
      [] OTHER ->
            IF isMarketing(subject, body, sender)
            THEN [score |-> 25, reason |-> "Marketing email"]
            ELSE IF isNewsletter(subject, sender)
            THEN [score |-> 35, reason |-> "Newsletter"]
            ELSE IF isTransactional(subject)
            THEN [score |-> 45, reason |-> "Transactional email"]
            ELSE IF isAutomated(sender)
            THEN [score |-> 40, reason |-> "Automated notification"]
            ELSE [score |-> 60, reason |-> "Likely human-written"]

\* STEPS 2 and 3: the adjustments, in the order the code applies them
Adjustments(subject, body, sender) ==
    <<[on |-> includesAny(subject \cup body, {"urgent", "asap", "immediate", "critical",
                                              "emergency", "deadline"}),
       add |-> 25, reason |-> "Urgent keywords"],
      [on |-> includesAny(subject \cup body, {"action required", "please review",
                                              "approval needed", "response needed"}),
       add |-> 20, reason |-> "Action required"],
      [on |-> includesAny(subject, {"meeting", "calendar", "invitation", "schedule"}),
       add |-> 15, reason |-> "Meeting related"],
      [on |-> \/ includesAny(subject, {"?"})
              \/ includesAny(body, {"can you", "could you", "would you", "will you"}),
       add |-> 10, reason |-> "Contains question"],
      [on |-> includesAny(sender, {"security@", "alert@"}),
       add |-> 30, reason |-> "Security sender"],
      [on |-> includesAny(sender, {".gov", ".edu"}),
       add |-> 10, reason |-> "Important domain"]>>

RECURSIVE Adjust(_, _, _)
Adjust(acc, adjustments, i) ==
    IF i > Len(adjustments) THEN acc
    ELSE IF adjustments[i].on
    THEN Adjust([score |-> acc.score + adjustments[i].add,
                 reasons |-> Append(acc.reasons, adjustments[i].reason)],
                adjustments, i + 1)
    ELSE Adjust(acc, adjustments, i + 1)

\* STEP 4: the category of a score
CategoryOf(score) ==
    IF score >= 90 THEN "urgent"
    ELSE IF score >= 70 THEN "important"
    ELSE IF score >= 50 THEN "normal"
    ELSE IF score >= 30 THEN "low"
    ELSE "spam"

heuristicPrioritize(email) ==
    LET subject == email.subject
        body == BodyOf(email)
        sender == email.sender_email
        base == BaseScore(subject, body, sender)
        adjusted == Adjust([score |-> base.score, reasons |-> <<base.reason>>],
                           Adjustments(subject, body, sender), 1)
    IN [score |-> Math_max(Num(0), Math_min(Num(100), Num(adjusted.score))),
        category |-> CategoryOf(adjusted.score),
        reason |-> adjusted.reasons]

\* the priority returned when the try block is left without a result
DefaultPriority ==
    [score |-> Num(50), category |-> "normal", reason |-> <<"Default priority">>]

\* the result built from a reply that parsed
ParsedPriority(parsed) ==
    [score |-> Math_max(Num(0), Math_min(Num(100), Or(parsed.score, Num(50)))),
     category |-> IF parsed.category # Null THEN parsed.category[1] ELSE "normal",
     reason |-> <<"AI analysis">>]

\* prioritizeEmail(email) for an outcome of this.anthropic.messages.create
prioritizeEmail(key, email, outcome) ==
    IF key = "" THEN heuristicPrioritize(email)
    ELSE CASE outcome.api = "rejects" -> DefaultPriority
           [] outcome.api = "no content" -> DefaultPriority        \* content[0].type throws
           [] outcome.api = "tool_use" -> DefaultPriority          \* content.type is not 'text'
           [] outcome.api = "text" ->
                 IF outcome.parsed.json = "object"
                 THEN ParsedPriority(outcome.parsed)
                 ELSE IF outcome.parsed.json = "scalar"
                 THEN ParsedPriority([score |-> Undefined, category |-> Null])
                 ELSE heuristicPrioritize(email)                   \* JSON.parse or parsed.score throws

\* the emails handed to prioritizeEmail
SubjectPhrases == {"otp", "security alert", "sale", "newsletter", "receipt", "urgent",
                   "meeting", "?"}
BodyPhrases == {"unsubscribe", "action required", "can you"}
SenderPhrases == {"noreply", "security@", ".edu"}

AtMost(S, n) == {s \in SUBSET S : Cardinality(s) <= n}

AIEmails ==
    [subject : AtMost(SubjectPhrases, 2),
     body_text : AtMost(BodyPhrases, 1),
     snippet : {{}, {"unsubscribe"}},
     sender_email : AtMost(SenderPhrases, 1)]

\* what a model reply can hold where the score is expected
ReplyScores ==
    {Undefined, JsNull, Num(0), Num(35), Num(100), Num(250), Num(-5), NumStr(85), Str,
     EmptyStr, JsTrue, JsFalse, EmptyArr, Arr}

\* what JSON.parse makes of the reply text: it throws, or yields null, a scalar or an object
Replies ==
    [json : {"throws", "null", "scalar"}, score : {Undefined}, category : {Null}]
        \cup [json : {"object"}, score : ReplyScores, category : {Null, Some("urgent")}]

Outcomes ==
    [api : {"rejects", "no content", "tool_use"},
     parsed : {[json |-> "throws", score |-> Undefined, category |-> Null]}]
        \cup [api : {"text"}, parsed : Replies]

InitAI ==
    /\ apiKey \in {"", "sk-ant"}
    /\ request \in [email : AIEmails, outcome : Outcomes]
    /\ priority = Null
    /\ now = Epoch0
    /\ ScorerIdle /\ AnalyzerIdle /\ GatesIdle /\ StoreIdle /\ ImapIdle
    /\ ListIdle /\ CacheIdle

\* await ai.prioritizeEmail(email)
PrioritizeEmail ==
    /\ priority = Null
    /\ priority' = Some(prioritizeEmail(apiKey, request.email, request.outcome))
    /\ UNCHANGED <<apiKey, request, now, scorerVars, analyzerVars, gateVars, storeVars,
                   imapVars, listVars, cacheVars>>

NextAI == PrioritizeEmail

SpecAI == InitAI /\ [][NextAI]_vars

----------------------------------------------------------------------------
(* DatabaseManager: the ai_cache table *)

\* the column value of priority_score: cache.priority_score || 50
ScoreToStore(x) == Or(x, Num(50))

\* cache.priority_category || 'normal'
CategoryToStore(c) == IF c # Null THEN c[1] ELSE "normal"

\* INSERT OR REPLACE INTO ai_cache (email_id, priority_score, priority_category, ...):
\* the row is replaced, the columns not listed take their defaults
setAICache(table, emailId, cache) ==
    LET row == [priority_score |-> ScoreToStore(cache.priority_score),
                priority_category |-> CategoryToStore(cache.priority_category),
                priority_reason |-> Null]
    IN [id \in DOMAIN table \cup {emailId} |-> IF id = emailId THEN row ELSE table[id]]

\* COALESCE(excluded.c, c)
COALESCE(a, b) == IF a # Null THEN a ELSE b

\* INSERT INTO ai_cache ... ON CONFLICT(email_id) DO UPDATE SET c = COALESCE(excluded.c, c)
saveAICache(table, emailId, data) ==
    LET excluded == [priority_score |-> ScoreToStore(data.priority_score),
                     priority_category |-> CategoryToStore(data.priority_category),
                     priority_reason |-> data.priority_reason]
        row == IF emailId \in DOMAIN table
               THEN [priority_score |-> excluded.priority_score,
                     priority_category |-> excluded.priority_category,
                     priority_reason |-> COALESCE(excluded.priority_reason,
                                                  table[emailId].priority_reason)]
               ELSE excluded
    IN [id \in DOMAIN table \cup {emailId} |-> IF id = emailId THEN row ELSE table[id]]

\* SELECT * FROM ai_cache WHERE email_id = ?
getAICache(table, emailId) ==
    IF emailId \in DOMAIN table THEN Some(table[emailId]) ELSE Null

\* the emails of the cache runs and the scores stored for them
CacheIds == {"e1", "e2"}
ScorePool == {Num(0), Num(1), Num(50), Num(100)}

CacheEmail(id) ==
    [subject |-> IF id = "e1" THEN {"sale"} ELSE {"urgent", "?"},
     body_text |-> {}, snippet |-> {}, sender_email |-> {}]

CacheOutcomes ==
    {o \in Outcomes :
        \/ o.api = "rejects"
        \/ o.api = "text" /\ o.parsed.json = "object" /\ o.parsed.category = Null
                          /\ o.parsed.score \in {Num(0), Num(35), Str}}

InitCache ==
    /\ ai_cache = <<>>
    /\ cacheCalls = <<>>
    /\ apiKey \in {"", "sk-ant"}
    /\ request = <<>>
    /\ priority = <<>>
    /\ now = Epoch0
    /\ ScorerIdle /\ AnalyzerIdle /\ GatesIdle /\ StoreIdle /\ ImapIdle /\ ListIdle

\* everything the cache operations leave alone
cacheOthers ==
    <<now, scorerVars, analyzerVars, gateVars, storeVars, imapVars, listVars, aiVars>>

CacheCall(op, emailId, score, result) ==
    [op |-> op, emailId |-> emailId, score |-> score, result |-> result]

\* db.setAICache(emailId, {priority_score, priority_category, ...})
SetAICache(maxCalls) ==
    /\ Len(cacheCalls) < maxCalls
    /\ \E emailId \in CacheIds, s \in ScorePool :
        /\ ai_cache' = setAICache(ai_cache, emailId,
                                  [priority_score |-> s, priority_category |-> Some("low")])
        /\ cacheCalls' = Append(cacheCalls, CacheCall("set", emailId, s, Null))
    /\ UNCHANGED cacheOthers

\* db.saveAICache(emailId, data), every field of data optional
SaveAICache(maxCalls) ==
    /\ Len(cacheCalls) < maxCalls
    /\ \E emailId \in CacheIds, s \in {Undefined, Num(0), Num(100)},
          reason \in {Null, Some("why")} :
        /\ ai_cache' = saveAICache(ai_cache, emailId,
                                   [priority_score |-> s, priority_category |-> Null,
                                    priority_reason |-> reason])
        /\ cacheCalls' = Append(cacheCalls, CacheCall("save", emailId, s, Null))
    /\ UNCHANGED cacheOthers

\* db.getAICache(emailId)
GetAICache(maxCalls) ==
    /\ Len(cacheCalls) < maxCalls
    /\ \E emailId \in CacheIds :
        cacheCalls' = Append(cacheCalls,
                             CacheCall("get", emailId, Undefined, getAICache(ai_cache, emailId)))
    /\ UNCHANGED <<ai_cache, cacheOthers>>

\* one round of the loop of useEmailState.prioritizeEmails
PrioritizeEmails(maxCalls) ==
    /\ Len(cacheCalls) + 1 < maxCalls
    /\ \E emailId \in CacheIds, outcome \in CacheOutcomes :
        LET cached == getAICache(ai_cache, emailId)
            read == CacheCall("get", emailId, Undefined, cached)
            result == prioritizeEmail(apiKey, CacheEmail(emailId), outcome)
        IN IF cached # Null /\ JsTruthy(cached[1].priority_score)
           THEN /\ cacheCalls' = Append(cacheCalls, read)
                /\ UNCHANGED ai_cache
           ELSE /\ ai_cache' = setAICache(ai_cache, emailId,
                                          [priority_score |-> result.score,
                                           priority_category |-> Some(result.category)])
                /\ cacheCalls' = cacheCalls \o
                                    <<read, CacheCall("set", emailId, result.score, Null)>>
    /\ UNCHANGED cacheOthers

CacheSet == SetAICache(MaxCacheCalls)
CacheSave == SaveAICache(MaxCacheCalls)
CacheGet == GetAICache(MaxCacheCalls)
CachePrioritize == PrioritizeEmails(MaxCacheCalls)

NextCache == CacheSet \/ CacheSave \/ CacheGet \/ CachePrioritize

SpecCache == InitCache /\ [][NextCache]_vars

----------------------------------------------------------------------------
(* Properties *)

\* the results returned so far by calculatePriority(features)
Outs == { scored[k].out : k \in DOMAIN scored }

\* the reason texts of a result
ReasonTexts(out) == { out.reasoning[i][1] : i \in DOMAIN out.reasoning }

\* the calendar event of the record starts within the 24 hours after clock reading t
EventWithin24h(f, t) ==
    /\ f.has_calendar
    /\ f.calendar_start_epoch # Null
    /\ f.calendar_start_epoch[1] > t
    /\ f.calendar_start_epoch[1] < t + 86400

\* a deadline exists and fewer than m minutes remain to it
DeadlineWithin(f, m) ==
    /\ f.deadline_epoch # Null
    /\ f.deadline_epoch[1] # 0
    /\ f.time_to_deadline_min # Null
    /\ f.time_to_deadline_min[1] < m

\* C1: every returned score is within 0..100 and every returned confidence
\* within 0..1 (0..100 hundredths).
C1_RangeInvariant ==
    \A k \in DOMAIN scored :
        /\ scored[k].out.score >= 0
        /\ scored[k].out.score <= 100
        /\ scored[k].out.confidence >= 0
        /\ scored[k].out.confidence <= 100

\* C1 witness: the additive total is below zero and the returned score is 0.
C1_Witness ==
    \E k \in DOMAIN scored :
        /\ RunningScore(features, scored[k].at).score < 0
        /\ scored[k].out.score = 0

\* the category the fixed thresholds assign to a returned score (whole points)
ThresholdCategory(p) ==
    IF p >= 90 THEN "urgent"
    ELSE IF p >= 70 THEN "important"
    ELSE IF p >= 50 THEN "normal"
    ELSE IF p >= 30 THEN "low"
    ELSE "spam"

\* C2: the returned category is the one the thresholds 90/70/50/30 assign to
\* the returned score.  (Violated: the category is taken from the running
\* score before Math.round, so 69.5 is returned as score 70, category normal.)
C2_CategoryAgreesWithScore ==
    \A k \in DOMAIN scored :
        scored[k].out.category = ThresholdCategory(scored[k].out.score)

\* C3 as claimed: any two scorings of the same record return the same output.
\* (Violated: the calendar override reads the clock.)
C3_SameRecordSameOutput ==
    \A i, j \in DOMAIN scored : scored[i].out = scored[j].out

\* C3 amended: two scorings of the same record return the same output when
\* they read the same clock second, or when the record has no calendar flag
\* or no calendar start: the clock is the only input besides the record.
C3_SameRecordSameClockSameOutput ==
    \A i, j \in DOMAIN scored :
        (\/ scored[i].at = scored[j].at
         \/ ~features.has_calendar
         \/ ~Truthy(features.calendar_start_epoch))
        => scored[i].out = scored[j].out

\* C3 witness: a record with a calendar start but no calendar flag has been
\* scored twice at different clock readings.
C3_Witness ==
    /\ Len(scored) >= 2
    /\ scored[1].at # scored[2].at
    /\ ~features.has_calendar
    /\ Truthy(features.calendar_start_epoch)
    /\ features.calendar_start_epoch[1] > scored[1].at
    /\ features.calendar_start_epoch[1] < scored[1].at + 86400

\* C4: calendar flag set and event within the next 24 hours => the returned
\* score is at least 70 and the category is important or urgent.
C4_CalendarOverride ==
    \A k \in DOMAIN scored :
        EventWithin24h(features, scored[k].at)
        => /\ scored[k].out.score >= 70
           /\ scored[k].out.category \in {"important", "urgent"}

\* C4 witness: a penalised calendar invite (newsletter and one-time code)
\* of an event within 24 hours comes out at exactly 70.
C4_Witness ==
    \E k \in DOMAIN scored :
        /\ EventWithin24h(features, scored[k].at)
        /\ features.is_newsletter
        /\ features.otp_detected
        /\ scored[k].out.score = 70
        /\ scored[k].out.category = "important"

\* C5 as claimed: one-time-code flag set => returned confidence at most 0.6.
\* (Violated: the urgent-deadline bonus, the calendar override and the
\* security override adjust the confidence after the clamp.)
C5_OtpConfidenceAtMost60 ==
    \A k \in DOMAIN scored :
        features.otp_detected => scored[k].out.confidence <= 60

\* C5 amended: one-time-code flag set => the returned confidence is at most
\* 0.6 unless a later rule raises it, namely the urgent-deadline bonus (a
\* deadline with fewer than 1440 minutes left, which covers the security
\* override) or the calendar override; in every case it is at most 0.85.
C5_OtpConfidenceUnlessRaised ==
    \A k \in DOMAIN scored :
        features.otp_detected
        => /\ scored[k].out.confidence <= 85
           /\ (~DeadlineWithin(features, 1440) /\ ~EventWithin24h(features, scored[k].at))
              => scored[k].out.confidence = 60

\* C5 witness: a one-time-code message with a deadline a day or more away,
\* scored with confidence 0.6.
C5_Witness ==
    \E k \in DOMAIN scored :
        /\ features.otp_detected
        /\ Truthy(features.deadline_epoch)
        /\ ~DeadlineWithin(features, 1440)
        /\ ~EventWithin24h(features, scored[k].at)
        /\ scored[k].out.confidence = 60

\* C6: a deadline with fewer than 360 minutes left and explicit-ask set =>
\* the returned score is at least 85.
C6_SecurityOverride ==
    \A k \in DOMAIN scored :
        (DeadlineWithin(features, 360) /\ features.explicit_ask)
        => scored[k].out.score >= 85

\* C6 witness: the additive total is far below 85 (newsletter, auto-generated
\* and one-time-code penalties) and the returned score is exactly 85.
C6_Witness ==
    \E k \in DOMAIN scored :
        /\ DeadlineWithin(features, 360)
        /\ features.explicit_ask
        /\ features.is_newsletter
        /\ features.is_auto_generated
        /\ features.otp_detected
        /\ scored[k].out.score = 85

\* C7: the auto-generated penalty (weight entry -20, its reason, 20 points
\* off the running score) is there exactly when the auto-generated flag is
\* set and the calendar flag is not; otherwise the flag changes nothing.
C7_AutoGeneratedPenalty ==
    \A k \in DOMAIN scored :
        LET out == scored[k].out
            penalised == features.is_auto_generated /\ ~features.has_calendar
            cleared == [features EXCEPT !.is_auto_generated = FALSE]
        IN  /\ ("is_auto_generated" \in DOMAIN out.feature_weights) <=> penalised
            /\ ("Auto-generated email (RFC 3834)" \in ReasonTexts(out)) <=> penalised
            /\ penalised => out.feature_weights["is_auto_generated"] = -2000
            /\ penalised =>
                   NegativeSignals(features, Baseline).score
                   = NegativeSignals(cleared, Baseline).score - 2000
            /\ ~penalised => out = calculatePriority(cleared, scored[k].at)

\* C7 witness: an auto-generated calendar invite has been scored.
C7_Witness ==
    \E k \in DOMAIN scored :
        /\ features.is_auto_generated
        /\ features.has_calendar
        /\ ~("is_auto_generated" \in DOMAIN scored[k].out.feature_weights)

\* the additive rules other than the relationship rule:
\* name, reason text, signed contribution (hundredths), and whether applied
AdditiveRules(f) ==
    { [name |-> "is_newsletter", text |-> "Newsletter detected (RFC 2369/2919)",
       w |-> -3000, on |-> f.is_newsletter],
      [name |-> "is_auto_generated", text |-> "Auto-generated email (RFC 3834)",
       w |-> -2000, on |-> f.is_auto_generated /\ ~f.has_calendar],
      [name |-> "otp_detected", text |-> "OTP/2FA code detected (low interaction priority)",
       w |-> -3500, on |-> f.otp_detected],
      [name |-> "is_vip_sender", text |-> "VIP sender (manually flagged)",
       w |-> 1500, on |-> f.is_vip_sender],
      [name |-> "explicit_ask", text |-> "Contains explicit question or request",
       w |-> 2000, on |-> f.explicit_ask],
      [name |-> "deadline_epoch", text |-> "Email has deadline",
       w |-> 1500, on |-> Truthy(f.deadline_epoch)],
      [name |-> "time_to_deadline_urgent", text |-> "Deadline in h (urgent)",
       w |-> 2500, on |-> DeadlineWithin(f, 1440)],
      [name |-> "thread_you_owe", text |-> "Conversation continuation (you owe a reply)",
       w |-> 2000, on |-> f.thread_you_owe],
      [name |-> "reply_need_prob", text |-> "High reply probability (%)",
       w |-> f.reply_need_prob * 25, on |-> f.reply_need_prob > 50],
      [name |-> "intent_confirm", text |-> "Requires confirmation",
       w |-> 1000, on |-> f.content_intent = "confirm"],
      [name |-> "intent_request", text |-> "Action request",
       w |-> 500, on |-> f.content_intent = "request"],
      [name |-> "intent_inform", text |-> "Informational (lower priority)",
       w |-> -500, on |-> f.content_intent = "inform"] }

\* the number of rules that change the score of record f at clock reading t
AppliedRuleCount(f, t) ==
    Cardinality({ r \in AdditiveRules(f) : r.on })
    + (IF f.relationship_score > 0 THEN 1 ELSE 0)
    + (IF EventWithin24h(f, t) THEN 1 ELSE 0)
    + (IF DeadlineWithin(f, 360) /\ f.explicit_ask THEN 1 ELSE 0)

BatchEnded == batchState \in {"fulfilled", "rejected"}

\* C8: a failure while scoring one element does not abort the batch: the
\* call still returns the results of the other elements.  (Violated: the
\* throw leaves Array.map, the promise rejects and no result is returned;
\* the return type has no place for an error entry.)
C8_FailureDoesNotAbortBatch ==
    BatchEnded
    => /\ batchState = "fulfilled"
       /\ Len(results)
              = Cardinality({ i \in DOMAIN featuresArray : ~Throws(featuresArray[i]) })

\* C9 as claimed: the batch returns N results, the i-th identical to the
\* result of scoring the i-th record individually.  (Violated for a calendar
\* invite when the clock moves between the individual call and the batch.)
C9_BatchEqualsSingle ==
    batchState = "fulfilled"
    => /\ Len(results) = Len(featuresArray)
       /\ \A i \in DOMAIN results : Some(results[i].out) = single[i].out

\* C9 amended: for a list of N feature records the batch returns N results
\* in input order, the i-th identical to the result of scoring the i-th
\* record individually at the same clock reading (at any clock reading when
\* the record has no calendar start).
C9_BatchEqualsSingleAtSameClock ==
    /\ batchState = "fulfilled"
       => /\ Len(results) = Len(featuresArray)
          /\ \A i \in DOMAIN results :
                 (\/ results[i].at = single[i].at
                  \/ ~Truthy(featuresArray[i][1].calendar_start_epoch))
                 => Some(results[i].out) = single[i].out
    /\ batchState = "rejected" => \E i \in DOMAIN featuresArray : Throws(featuresArray[i])

\* C9 witness: a batch of two different records has been returned, scored
\* later than the individual calls.
C9_Witness ==
    /\ batchState = "fulfilled"
    /\ Len(results) >= 2
    /\ results[1].out # results[2].out
    /\ results[1].at # single[1].at
    /\ Some(results[1].out) = single[1].out
    /\ Some(results[2].out) = single[2].out

----------------------------------------------------------------------------
(* ContentAnalyzer properties *)

\* the method named op has returned out for the text
Returned(op) == analysis # Null /\ text.op = op

\* the four inputs classifyIntent was given in the current state
IntentInputs ==
    IF text.op = "classifyIntent"
    THEN [q |-> text.hasQuestion, d |-> text.hasDeadline,
          u |-> text.urgencyLevel, a |-> text.actionItemCount,
          intent |-> analysis[1]]
    ELSE [q |-> analysis[1].has_question, d |-> analysis[1].deadline_epoch # Null,
          u |-> analysis[1].urgency_level, a |-> Len(analysis[1].action_items),
          intent |-> analysis[1].intent]

\* C11: intent classification is total and follows the priority order:
\* confirm iff a deadline exists and urgency >= 5; otherwise request iff
\* there is a question, an action item or urgency >= 5; otherwise schedule
\* iff a deadline exists; otherwise inform.  A deadline with urgency >= 5
\* is confirm even with a question or action items.
C11_IntentPriorityOrder ==
    (Returned("classifyIntent") \/ Returned("analyzeContent")) =>
        LET r == IntentInputs
            rule1 == r.d /\ r.u >= 5
            rule2 == r.q \/ r.a > 0 \/ r.u >= 5
        IN  /\ r.intent \in Intents4
            /\ (r.intent = "confirm") <=> rule1
            /\ (r.intent = "request") <=> (~rule1 /\ rule2)
            /\ (r.intent = "schedule") <=> (~rule1 /\ ~rule2 /\ r.d)
            /\ (r.intent = "inform") <=> (~rule1 /\ ~rule2 /\ ~r.d)

\* a text with a question, an action item, a deadline and urgency 5 has
\* been analysed and classified confirm
C11_Witness ==
    /\ Returned("analyzeContent")
    /\ analysis[1].has_question
    /\ Len(analysis[1].action_items) > 0
    /\ analysis[1].deadline_epoch # Null
    /\ analysis[1].urgency_level >= 5
    /\ analysis[1].intent = "confirm"

\* the dates the parser returned that lie after the call's clock reading
FutureDates ==
    { d \in { text.patternDates[k] : k \in DOMAIN text.patternDates }
             \cup { text.generalDates[k] : k \in DOMAIN text.generalDates } :
        d > NowMs(now) }

\* C12: the deadline reported is strictly in the future and is the earliest
\* of all parsed future dates; when no future date is parsed, the deadline
\* and the minutes to it are both null.
C12_DeadlineIsEarliestFutureDate ==
    Returned("extractDeadlines") =>
        LET out == analysis[1]
        IN  IF FutureDates = {}
            THEN out.deadline_epoch = Null /\ out.time_to_deadline_min = Null
            ELSE /\ out.deadline_epoch # Null
                 /\ out.deadline_epoch[1] * 1000 > NowMs(now)
                 /\ \E d \in FutureDates :
                       /\ out.deadline_epoch[1] = d \div 1000
                       /\ \A e \in FutureDates : d <= e

\* the distinct candidate items of the text: its list items, or, when it
\* has none, its sentences with an action verb
CandidateItems ==
    IF Len(text.markerItems) > 0
    THEN { text.markerItems[k] : k \in DOMAIN text.markerItems }
    ELSE { text.sentences[k] : k \in DOMAIN text.sentences } \ {"plain"}

\* C19: the action items hold no duplicates and at most 5 entries, and
\* duplicates are removed before the cap: a text with at least 5 distinct
\* candidate items yields exactly 5.
C19_DedupBeforeCap ==
    Returned("extractActionItems") =>
        LET out == analysis[1]
        IN  /\ \A j, k \in DOMAIN out : out[j] = out[k] => j = k
            /\ Len(out) <= 5
            /\ Cardinality(CandidateItems) >= 5 => Len(out) = 5

\* what the matched signals of the text contribute, summed
SignalSum ==
    5 * Cardinality(text.critical) + 3 * Cardinality(text.high)
      + 1 * Cardinality(text.medium) + (IF text.allCapsWords > 0 THEN 2 ELSE 0)

\* C20: the urgency level is the sum of the contributions of all matched
\* signals (5 per critical, 3 per high, 1 per medium, 2 for capitalised
\* words in the subject) clamped to 10, an integer in [0,10].
C20_UrgencyIsClampedSum ==
    Returned("detectUrgency") =>
        LET out == analysis[1]
        IN  /\ out.urgency_level = (IF SignalSum > 10 THEN 10 ELSE SignalSum)
            /\ out.urgency_level \in 0..10
            /\ Len(out.urgency_signals) =
                   Cardinality(text.critical) + Cardinality(text.high)
                     + Cardinality(text.medium) + (IF text.allCapsWords > 0 THEN 1 ELSE 0)

\* two critical patterns and a high one matched: 13 points, reported as 10
C20_Witness ==
    /\ Returned("detectUrgency")
    /\ Cardinality(text.critical) = 2 /\ Cardinality(text.high) = 1
    /\ text.medium = {} /\ text.allCapsWords = 0
    /\ analysis[1].urgency_level = 10

----------------------------------------------------------------------------
(* Scorer properties on single records *)

\* every field of the record at its no-signal value: flags 0, optional
\* fields null, relationship_score 0, and reply_need_prob 0 (the test
\* suite's baseline) or 0.5 (the column default)
NoSignal(f) ==
    /\ ~f.is_newsletter /\ ~f.is_auto_generated /\ ~f.has_calendar /\ ~f.otp_detected
    /\ f.calendar_start_epoch = Null
    /\ f.relationship_score = 0 /\ ~f.is_vip_sender
    /\ ~f.thread_you_owe /\ ~f.explicit_ask
    /\ f.deadline_epoch = Null /\ f.time_to_deadline_min = Null
    /\ f.content_intent = "null"
    /\ f.reply_need_prob \in {0, 50}

\* C13: the newsletter flag alone, every other field neutral, gives a
\* score below 30 and the category spam.
C13_NewsletterAloneIsSpam ==
    \A k \in DOMAIN scored :
        (features.is_newsletter /\ NoSignal([features EXCEPT !.is_newsletter = FALSE])) =>
            /\ scored[k].out.score < 30
            /\ scored[k].out.category = "spam"

C13_Witness ==
    /\ scored # <<>>
    /\ features.is_newsletter
    /\ NoSignal([features EXCEPT !.is_newsletter = FALSE])
    /\ scored[1].out.score = 20

\* C14: a record with every field at its no-signal default scores within
\* [40,60] and is categorised normal.
C14_NoSignalIsNormal ==
    \A k \in DOMAIN scored :
        NoSignal(features) =>
            /\ scored[k].out.score \in 40..60
            /\ scored[k].out.category = "normal"

C14_Witness ==
    /\ scored # <<>>
    /\ NoSignal(features)
    /\ features.reply_need_prob = 50
    /\ scored[1].out.score = 50

\* the running total of the additive phases, and the record without its deadline
AdditiveTotal(f) == IntentModifiers(f, PositiveSignals(f, NegativeSignals(f, Baseline)))

WithoutDeadline(f) == [f EXCEPT !.deadline_epoch = Null, !.time_to_deadline_min = Null]

\* C15: the urgent-deadline bonus (+25 points and +0.1 confidence, capped
\* at 1.0) is applied exactly when a deadline exists and fewer than 1440
\* minutes remain; every other deadline contributes +15 only.
C15_UrgentDeadlineBonus ==
    \A k \in DOMAIN scored :
        LET f == features
            out == scored[k].out
            w == out.feature_weights
            urgent == f.deadline_epoch # Null /\ f.time_to_deadline_min # Null
                      /\ f.time_to_deadline_min[1] < 1440
            with == AdditiveTotal(f)
            without == AdditiveTotal(WithoutDeadline(f))
        IN  /\ ("time_to_deadline_urgent" \in DOMAIN w) <=> urgent
            /\ ("deadline_epoch" \in DOMAIN w) <=> (f.deadline_epoch # Null)
            /\ urgent =>
                 /\ w["time_to_deadline_urgent"] = 2500 /\ w["deadline_epoch"] = 1500
                 /\ with.score = without.score + 4000
                 /\ with.confidence = (IF without.confidence + 10 > 100 THEN 100
                                       ELSE without.confidence + 10)
            /\ (f.deadline_epoch # Null /\ ~urgent) =>
                 /\ w["deadline_epoch"] = 1500
                 /\ with.score = without.score + 1500
                 /\ with.confidence = without.confidence
            /\ (f.deadline_epoch = Null) => with = without
            /\ (~EventWithin24h(f, scored[k].at) /\ ~(DeadlineWithin(f, 360) /\ f.explicit_ask)) =>
                 out.confidence = (IF f.otp_detected THEN 60 ELSE 80)
                                    + (IF urgent THEN 10 ELSE 0)

\* a deadline 1439 minutes away has been scored with both bonuses, and the
\* confidence 0.9
C15_Witness ==
    /\ scored # <<>>
    /\ features.deadline_epoch # Null
    /\ features.time_to_deadline_min = Some(1439)
    /\ ~features.otp_detected /\ ~features.has_calendar
    /\ scored[1].out.feature_weights["time_to_deadline_urgent"] = 2500
    /\ scored[1].out.confidence = 90

----------------------------------------------------------------------------
(* Gate properties *)

\* two detect calls of the same gate, in the order they were made
SameGateCalls ==
    { p \in (DOMAIN detections) \X (DOMAIN detections) :
        p[1] < p[2] /\ detections[p[1]].gate = detections[p[2]].gate }

\* C16 as stated: the gates leave nothing behind, and a gate run again on
\* the same message, after any other calls, returns the same result.
C16_SameGateSameResult ==
    /\ lastIndex = [list \in PatternLists |-> 0]
    /\ \A p \in SameGateCalls : detections[p[1]].result = detections[p[2]].result

ExpiryReason == <<"OTP likely expired (email too old)">>

\* an OTP result without what is computed from the clock
WithoutAge(r) ==
    [hasOTP |-> r.hasOTP, confidence |-> r.confidence, otpInfo |-> r.otpInfo,
     reasons |-> SelectSeq(r.reasons, LAMBDA x : x # ExpiryReason)]

\* C16 (amended): the gates leave nothing behind; the newsletter and the
\* calendar gate return the same result on every call for the message; the
\* OTP gate returns the same match, confidence, code info and signal
\* reasons on every call, and the same age, expiry flag and expiry reason
\* on calls at the same clock reading or for a message without a date.
C16_SameResultUpToMessageAge ==
    /\ lastIndex = [list \in PatternLists |-> 0]
    /\ \A p \in SameGateCalls :
          LET a == detections[p[1]]
              b == detections[p[2]]
          IN  IF a.gate = "otp"
              THEN /\ WithoutAge(a.result) = WithoutAge(b.result)
                   /\ (a.at = b.at \/ message.otp.emailDate = Null) => a.result = b.result
              ELSE a.result = b.result

\* the OTP gate has run twice on a dated message, another gate in between
\* and an hour apart: same match and confidence, the second call reports
\* the code as expired
C16_Witness ==
    /\ Len(detections) = 3
    /\ detections[1].gate = "otp" /\ detections[3].gate = "otp"
    /\ detections[2].gate = "newsletter" /\ detections[2].result.isNewsletter
    /\ detections[1].at < detections[3].at
    /\ detections[1].result.hasOTP /\ detections[3].result.hasOTP
    /\ ~detections[1].result.isExpired /\ detections[3].result.isExpired

\* the confidences of the signals of a gate that the message fires
Fired(table) == { q[2] : q \in { p \in table : p[1] } }

FiredConfidences(g, msg) ==
    IF g = "newsletter"
    THEN LET m == msg.newsletter
         IN  Fired({ <<m.headers /\ m.listHeaders, 95>>, <<m.headers /\ m.campaignHeaders, 90>>,
                     <<m.headers /\ m.precedenceBulk, 85>>, <<m.noReplySender, 75>>,
                     <<m.newsletterDomain, 85>>, <<m.subjectPattern, 60>> })
    ELSE IF g = "calendar"
    THEN LET m == msg.calendar
         IN  Fired({ <<m.calendarContentType, 100>>, <<m.icsAttachment, 95>>,
                     <<m.calendarService, 90>>, <<m.subjectPattern, 85>>,
                     <<m.meetingResponse, 80>>,
                     <<m.bodyMatches = 1, 75>>, <<m.bodyMatches = 2, 80>>,
                     <<m.bodyMatches >= 3, 85>>,
                     <<m.headers /\ m.exchangeHeaders, 90>>,
                     <<m.headers /\ m.eventHeaders, 85>> })
    ELSE LET m == msg.otp
         IN  Fired({ <<m.subjectPattern, 80>>, <<m.codeInSubject, 75>>,
                     <<m.keywordMatches = 1, 80>>, <<m.keywordMatches = 2, 90>>,
                     <<m.keywordMatches >= 3, 95>>,
                     <<m.keywordMatches > 0 /\ m.codeNearKeyword, 90>>,
                     <<m.expiryMinutes # Null, 85>>, <<m.timeIndicator, 75>>,
                     <<m.knownService, 70>>, <<m.securitySender, 65>> })

Greatest(S) == IF S = {} THEN 0 ELSE CHOOSE x \in S : \A y \in S : y <= x

Matched(d) ==
    IF d.gate = "newsletter" THEN d.result.isNewsletter
    ELSE IF d.gate = "calendar" THEN d.result.hasCalendar
    ELSE d.result.hasOTP

\* C17: a gate's confidence is the maximum, not the sum, of the confidences
\* of its signals that fired, 0 when none fired, and the gate reports a
\* match exactly when the confidence reaches 0.60 (newsletter), 0.70
\* (calendar) or 0.65 (one-time code).
C17_ConfidenceIsMaxOfFired ==
    \A k \in DOMAIN detections :
        LET d == detections[k]
        IN  /\ d.result.confidence = Greatest(FiredConfidences(d.gate, message))
            /\ Matched(d) <=>
                  d.result.confidence >=
                      (IF d.gate = "newsletter" THEN 60
                       ELSE IF d.gate = "calendar" THEN 70 ELSE 65)

\* the newsletter gate saw two signals, a no-reply sender (0.75) and a
\* subject pattern (0.60), and reports 0.75
C17_Witness ==
    /\ detections # <<>>
    /\ detections[1].gate = "newsletter"
    /\ FiredConfidences("newsletter", message) = {75, 60}
    /\ detections[1].result.confidence = 75
    /\ detections[1].result.isNewsletter


\* the store a call of the RelationshipScorer left behind
StoreAfter(k) ==
    IF k < Len(relationships) THEN relationships[k + 1].before ELSE db

ReturnedScores ==
    { relationships[k].out[1] :
        k \in { j \in DOMAIN relationships :
                  relationships[j].op = "calculateRelationshipScore" } }

UnitInterval == 0..One

\* C21: for every interaction history and every value of the manual VIP
\* flag, each of the five component scores and the final relationship score
\* lie in [0, 1].
C21_ScoresInUnitInterval ==
    \A r \in ReturnedScores :
        /\ r.score \in UnitInterval
        /\ r.components.reply_frequency \in UnitInterval
        /\ r.components.two_way_exchanges \in UnitInterval
        /\ r.components.recency \in UnitInterval
        /\ r.components.email_volume \in UnitInterval
        /\ r.components.manual_vip \in UnitInterval

\* a history that needs every clamp: more replies than messages received,
\* a last contact ahead of the clock, and a volume far beyond the penalty range
C21_Witness ==
    \E r \in ReturnedScores :
        /\ r.stats.user_replies_count > r.stats.emails_received
        /\ r.stats.emails_received > 0
        /\ r.stats.last_contact_epoch = Some(StoreEpoch + DAY_SEC)
        /\ r.components.reply_frequency = 0
        /\ r.components.recency = One
        /\ r.is_vip = 1

\* the weighted sum of the components of a RelationshipScore
WeightedSum(r) ==
    (r.components.reply_frequency * RELATIONSHIP_WEIGHTS.REPLY_FREQUENCY
     + r.components.two_way_exchanges * RELATIONSHIP_WEIGHTS.TWO_WAY_EXCHANGES
     + r.components.recency * RELATIONSHIP_WEIGHTS.RECENCY
     + r.components.email_volume * RELATIONSHIP_WEIGHTS.EMAIL_VOLUME
     + r.components.manual_vip * RELATIONSHIP_WEIGHTS.MANUAL_VIP) \div 100

\* C22: a sender with zero messages received from them and zero messages
\* sent to them gets a relationship score of exactly 0.5 (2 * score = 1),
\* whatever the weighted sum of the components is.
C22_NewSenderGetsHalf ==
    \A r \in ReturnedScores :
        (r.stats.emails_received = 0 /\ r.stats.emails_sent_to = 0)
            => (r.score * 2 = One /\ r.score # WeightedSum(r))

\* a VIP sender whose only message has left the six-month window
C22_Witness ==
    \E k \in DOMAIN relationships :
        /\ relationships[k].op = "calculateRelationshipScore"
        /\ relationships[k].vip
        /\ \E m \in relationships[k].before.emails :
               m.sender_email = relationships[k].sender
        /\ relationships[k].out[1].stats.emails_received = 0
        /\ relationships[k].out[1].stats.emails_sent_to = 0
        /\ relationships[k].out[1].score * 2 = One


\* C23: a reconnect is never scheduled while another one is pending, nor
\* once 5 attempts have been made since the last successful connection: at
\* most one reconnect timer is pending at any time, the handle is set
\* exactly while it is, and the attempt counter never exceeds 5.
C23_OneTimerAtMostFiveAttempts ==
    /\ Len(timers) <= 1
    /\ (reconnectTimer # Null) <=> (Len(timers) = 1)
    /\ reconnectAttempts <= maxReconnectAttempts

\* the fifth attempt has been used up and a further error found no timer
\* pending: nothing is scheduled any more
C23_Witness ==
    /\ reconnectAttempts = maxReconnectAttempts
    /\ connectionState = "error"
    /\ timers = <<>>
    /\ Len(backoff) >= maxReconnectAttempts

\* the ensureConnected calls that completed without error
Returned24 == { k \in DOMAIN calls : calls[k].pc = "returned" }

\* C24: whenever ensureConnected completes without error, the connection
\* state is CONNECTED and the IMAP session in use is authenticated.
C24_ReturnsConnected ==
    \A k \in Returned24 :
        /\ calls[k].found[1].connectionState = "connected"
        /\ calls[k].found[1].authenticated

\* C25: after disconnect(), until a caller next asks for a connection, the
\* state stays DISCONNECTED and no reconnect is pending or started.
C25_DisconnectIsFinal ==
    quiet => (connectionState = "disconnected" /\ timers = <<>> /\ imap = Null)


\* the manager can open no further Imap object within the bound
NoImapLeft == Len(conns) = MaxConns

\* C26: every call of ensureConnected eventually completes: it resolves or
\* rejects, and does not wait or poll forever.
C26_EnsureConnectedCompletes ==
    \A k \in 1..MaxEnsure :
        (k \in DOMAIN calls /\ calls[k].pc \in {"awaiting", "polling"})
            ~> ((k \in DOMAIN calls /\ calls[k].pc \in {"returned", "threw"})
                    \/ NoImapLeft)

\* the entries of the log since the last 'ready'
RECURSIVE SinceReady(_)
SinceReady(log) ==
    IF log = <<>> \/ log[Len(log)] = 0 THEN <<>>
    ELSE Append(SinceReady(SubSeq(log, 1, Len(log) - 1)), log[Len(log)])

\* C27: consecutive reconnects are delayed by 1 s, 2 s, 4 s, 8 s and 16 s in
\* that order, never by more than 30 s; a successful connection resets the
\* attempt counter to 0, so that the reconnect after it waits 1 s again.
C27_BackoffDoublesFromOneSecond ==
    /\ \A n \in DOMAIN backoff :
           backoff[n] # 0 =>
               /\ backoff[n] \in {1000, 2000, 4000, 8000, 16000}
               /\ backoff[n] <= MAX_DELAY_MS
               /\ backoff[n] = IF n = 1 \/ backoff[n - 1] = 0
                               THEN 1000 ELSE 2 * backoff[n - 1]
    /\ reconnectAttempts = Len(SinceReady(backoff))

\* all five delays were used, the sixth connection succeeded, and the
\* reconnect after its loss waits 1 s
C27_Witness ==
    backoff = <<1000, 2000, 4000, 8000, 16000, 0, 1000>>


\* C28: in the list view, whenever at least one email matches the filter, currentPage is
\* within [0, totalPages - 1] and selectedIndex within [0, emails shown - 1]
C28_SelectionOnShownPage ==
    (view = "list" /\ Len(filteredEmails) >= 1) =>
        /\ currentPage \in 0 .. (totalPages - 1)
        /\ selectedIndex \in 0 .. (Len(displayEmails) - 1)


\* C30: prioritizeEmail always completes with a score within [0,100]; without an API key or
\* with an unparseable reply the result is the heuristic one, and when the API call fails
\* it is the default priority (score 50, category normal)
C30_CompletesWithScoreInRange ==
    priority # Null =>
        /\ priority[1].score.k = "num" /\ priority[1].score.v \in 0 .. 100
        /\ (apiKey = "" \/ (request.outcome.api = "text"
                            /\ request.outcome.parsed.json = "throws"))
               => priority[1] = heuristicPrioritize(request.email)
        /\ (apiKey # "" /\ request.outcome.api = "rejects")
               => priority[1].score = Num(50) /\ priority[1].category = "normal"


\* the last cache write for the email of call i before that call, 0 when there is none
LastWrite(i) ==
    LET writes == {j \in 1 .. (i - 1) : /\ cacheCalls[j].op \in {"set", "save"}
                                         /\ cacheCalls[j].emailId = cacheCalls[i].emailId}
    IN IF writes = {} THEN 0 ELSE CHOOSE j \in writes : \A k \in writes : k <= j

\* C29: after a priority score s with 0 <= s <= 100 is stored in the AI cache for an email,
\* reading the cache for that email returns exactly s
C29_CacheReturnsStoredScore ==
    \A i \in DOMAIN cacheCalls :
        (/\ cacheCalls[i].op = "get"
         /\ LastWrite(i) # 0
         /\ cacheCalls[LastWrite(i)].score.k = "num"
         /\ cacheCalls[LastWrite(i)].score.v \in 0 .. 100)
            => /\ cacheCalls[i].result # Null
               /\ cacheCalls[i].result[1].priority_score = cacheCalls[LastWrite(i)].score

====
